---- MODULE Spec2Model ----
(***************************************************************************)
(* Conversational provisioning workflow engine of the DigitalOcean         *)
(* Telegram bot (Cloudflare Worker).  Every webhook delivery is a task     *)
(* that runs one handler; a task takes one step per store operation or     *)
(* provisioning-API request, so deliveries interleave at the handler's     *)
(* await points.  The KV namespace DROPLET_CREATION is the only shared     *)
(* state.  Store operations succeed and are read back at once; requests    *)
(* to the provisioning API may be answered, refused or fail.               *)
(***************************************************************************)
EXTENDS Integers, Sequences, FiniteSets, TLC

\* ---------------------------------------------------------------- bounds
MaxTokens == 2
\* the longest remote image listing has MaxPages pages
MaxPages == 3
\* the longest list of marketplace apps that is grouped
MaxApps == 2

\* ------------------------------------------------------ program constants
ITEMS_PER_PAGE == 20
MIN_SEARCH_LENGTH == 3
CACHE_TTL == 86400
IMAGES_PER_PAGE == 200
NAME_SESSION_TTL == 300
CREATE_TTL == 300
REBUILD_TTL == 300
STATE_TTL == 600
\* the clock advances by the shortest expirationTtl at a time
TickSeconds == NAME_SESSION_TTL

\* ------------------------------------------------------------ input sets
Chats == {1}
Users == {1, 9}
ALLOWED_USER_IDS == {1, 2, 12}
Creds == {"c1", "c2"}
Regions == {"nyc1"}
Images == {"img1"}
Sizes == {"s-1vcpu-1gb"}
Droplets == {7}
TypedNames == {"web-01"}

VARIABLES store, nextId, task, apiCalls

vars == <<store, nextId, task, apiCalls>>

\* ------------------------------------------------------------ store keys
\* `${p}_${c}_${Date.now()}`: ts is the rank of the millisecond among those in
\* which a key was minted; api_token_${c} and state_${c} carry no timestamp.
Key(p, c, ts) == [p |-> p, c |-> c, ts |-> ts]

NoKey == Key("none", 0, 0)

TokenKey(c) == Key("api_token", c, 0)

StateKey(c) == Key("state", c, 0)

\* decimal digits of a are a prefix of the decimal digits of b
RECURSIVE DecPrefix(_, _)
DecPrefix(a, b) == IF a = b THEN TRUE ELSE IF b < 10 THEN FALSE ELSE DecPrefix(a, b \div 10)

\* ---------------------------------------------------------- store values
NoName == [base |-> "", size |-> "", region |-> "", ts |-> 0]

V0 == [region |-> "", size |-> "", image |-> "", name |-> NoName, defaultName |-> NoName, ssh |-> {}, droplet |-> 0, cred |-> "", step |-> "", type |-> "", page |-> 0, query |-> "", disk |-> 0, items |-> <<>>]

Live(k) == k \in DOMAIN store

Get(k) == IF Live(k) THEN store[k].val ELSE V0

Put(s, k, v, ttl) == [x \in (DOMAIN s) \cup {k} |-> IF x = k THEN [val |-> v, exp |-> ttl \div TickSeconds] ELSE s[x]]

Delete(s, k) == [x \in (DOMAIN s) \ {k} |-> s[x]]

\* lexicographic listing order of KV.list
KeyLess(a, b) == a.c < b.c \/ (a.c = b.c /\ a.ts < b.ts)

RECURSIVE KeySeq(_)
KeySeq(S) == IF S = {} THEN <<>> ELSE LET m == CHOOSE k \in S : \A o \in S \ {k} : KeyLess(k, o) IN <<m>> \o KeySeq(S \ {m})

\* ------------------------------------------------------------------ tasks
\* locals of getAllImages / getImagesByType and of the listing that follows:
\* type is the class getImagesByType was asked for,
\* n is the total the provider reports during this fetch, req the pages
\* requested, failed whether a page request failed, hit whether the cache
\* answered, put whether the cache was written, returned whether
\* getImagesByType has returned allImages, results the matches of a search,
\* offered the buttons shown
NoFetch == [type |-> "", allImages |-> <<>>, totalPages |-> 0, page |-> 0, n |-> 0, req |-> <<>>, failed |-> FALSE, hit |-> FALSE, put |-> FALSE, returned |-> FALSE, results |-> <<>>, offered |-> <<>>]

\* dropletData.droplet of GET /droplets/<id>; id 0 when undefined
NoDroplet == [id |-> 0, disk |-> 0, region |-> ""]

Idle == [pc |-> "idle", h |-> "", from |-> 0, chat |-> 0, key |-> NoKey, arg |-> V0, apiToken |-> "", data |-> V0, img |-> NoFetch, droplet |-> NoDroplet, deletedCount |-> 0, apps |-> <<>>, grouped |-> << >>, msgDeleted |-> FALSE, todo |-> <<>>, pi |-> 0, minted |-> 0, resp |-> "", wrote |-> FALSE, deleted |-> FALSE, called |-> FALSE, token |-> "", reply |-> ""]

\* the deliveries the worker is handling: one slot each
TaskIds == DOMAIN task

Active(t) == task[t].pc # "idle"

Finish(r, reply) == [r EXCEPT !.pc = "done", !.reply = reply, !.todo = <<>>, !.pi = 0]

TypedName(n) == [NoName EXCEPT !.base = n]

Init ==
    /\ store = << >>
    /\ nextId = 1
    /\ task = [t \in {1} |-> Idle]
    /\ apiCalls = << >>

\* first await of each handler after dispatch
FirstPc(h) ==
    CASE h = "tokenReply" -> "validate"
      [] h = "renameReply" -> "rn_get"
      [] h = "region" -> "rg_set"
      [] h = "selectimg" -> "ss_api"
      [] h = "size" -> "sz_get"
      [] h = "useDefault" -> "ud_get"
      [] h = "renamePress" -> "rp_get"
      [] h = "confirmcreate" -> "ex_token"
      [] h = "executeRebuild" -> "ex_token"
      [] h = "rebuildimg" -> "rb_put"
      [] h = "delete" -> "dl_token"
      [] h = "imgtype" -> "il_token"
      [] h = "text" -> "tx_state"
      [] h = "cancel" -> "cn_clear"
      [] h = "backFromSearch" -> "bk_clear"
      [] h = "backFromRebuildSearch" -> "bk_clear"
      [] h = "rebuildtype" -> "rl_token"
      [] h = "rebuildpage" -> "rl_token"
      [] h = "imgsearch" -> "sm_set"
      [] h = "rebuildsearch" -> "sm_set"
      [] h = "sizesOf" -> "sh_sizes"
      [] h = "imgpage" -> "il_token"

\* a delivery is taken up by the lowest free slot
Begin(t, r) ==
    /\ task[t].pc = "idle"
    /\ \A o \in TaskIds : o < t => Active(o)
    /\ task' = [task EXCEPT ![t] = r]
    /\ UNCHANGED <<store, nextId, apiCalls>>

Delivery(u, c, h, key, arg) == [Idle EXCEPT !.h = h, !.from = u, !.chat = c, !.key = key, !.arg = arg, !.pc = FirstPc(h)]

\* handleMessage: the whitelist check, then the reply dispatch
handleMessage(t, u, c, h, key, arg) ==
    IF u \notin ALLOWED_USER_IDS
    THEN Begin(t, Finish(Delivery(u, c, h, key, arg), "denied"))
    ELSE Begin(t, Delivery(u, c, h, key, arg))

\* handleCallbackQuery: dispatch on the prefix of callback_data
handleCallbackQuery(t, u, c, h, key, arg) == Begin(t, Delivery(u, c, h, key, arg))

\* callback_data of an indirection button: any key of that prefix whose
\* timestamp was ever minted (pressed again, late, or never stored)
KeysOf(p) == {Key(p, c, n) : c \in Chats, n \in 1..(nextId - 1)}

MsgTokenReply(t) == \E u \in Users, c \in Chats, tok \in Creds : handleMessage(t, u, c, "tokenReply", NoKey, [V0 EXCEPT !.cred = tok])

MsgRenameReply(t) == \E u \in Users, c \in Chats, k \in KeysOf("session"), n \in TypedNames : handleMessage(t, u, c, "renameReply", k, [V0 EXCEPT !.name = TypedName(n)])

PressRegion(t) == \E u \in Users, c \in Chats, r \in Regions : handleCallbackQuery(t, u, c, "region", NoKey, [V0 EXCEPT !.region = r])

PressSelectImg(t) == \E u \in Users, c \in Chats, r \in Regions, i \in Images : handleCallbackQuery(t, u, c, "selectimg", NoKey, [V0 EXCEPT !.region = r, !.image = i])

PressSize(t) == \E u \in Users, c \in Chats, r \in Regions, i \in Images, s \in Sizes : handleCallbackQuery(t, u, c, "size", NoKey, [V0 EXCEPT !.region = r, !.image = i, !.size = s])

PressUseDefault(t) == \E u \in Users, c \in Chats, k \in KeysOf("session") : handleCallbackQuery(t, u, c, "useDefault", k, V0)

PressRename(t) == \E u \in Users, c \in Chats, k \in KeysOf("session") : handleCallbackQuery(t, u, c, "renamePress", k, V0)

PressConfirmCreate(t) == \E u \in Users, c \in Chats, k \in KeysOf("create") : handleCallbackQuery(t, u, c, "confirmcreate", k, V0)

PressExecuteRebuild(t) == \E u \in Users, c \in Chats, k \in KeysOf("rebuild") : handleCallbackQuery(t, u, c, "executeRebuild", k, V0)

PressRebuildImg(t) == \E u \in Users, c \in Chats, d \in Droplets, i \in Images : handleCallbackQuery(t, u, c, "rebuildimg", NoKey, [V0 EXCEPT !.droplet = d, !.image = i])

PressDelete(t) == \E u \in Users, c \in Chats, d \in Droplets : handleCallbackQuery(t, u, c, "delete", NoKey, [V0 EXCEPT !.droplet = d])

\* ------------------------------------------------------------- step helpers
Step(t, r) == task' = [task EXCEPT ![t] = r]

At(t, pc) == task[t].pc = pc

Me(t) == task[t]

getUserApiToken(c) == Get(TokenKey(c)).cred

\* the remote account of a credential owns its own SSH keys
SshKeysOf(cred) == {<<cred, 1>>}

\* ---------------------------------------------- saveUserApiToken (reply)
\* a saveUserApiToken without the `if (!testResponse.ok) return false` line
AcceptedAnyResponse(outcome) == outcome # "throw"

\* if (!testResponse.ok) return false; a thrown fetch is caught -> false
Accepted(outcome) == outcome = "ok"

\* GET /v2/account with the submitted token
Validate(t) ==
    /\ At(t, "validate")
    /\ \E outcome \in {"ok", "reject", "throw"} :
         IF Accepted(outcome)
         THEN Step(t, [Me(t) EXCEPT !.pc = "clr_list", !.pi = 1, !.called = TRUE, !.resp = outcome])
         ELSE Step(t, Finish([Me(t) EXCEPT !.called = TRUE, !.resp = outcome], "invalid"))
    /\ UNCHANGED <<store, nextId, apiCalls>>

\* the shorter list of the clearUserSessions of utils/auth.js
SessionPrefixesAuth == <<"session", "create">>

\* prefixes listed by clearUserSessions, in order
SessionPrefixes == <<"session", "create", "state", "rebuild", "page">>

\* key.name.startsWith(prefix): only `state_${userId}` lacks the closing '_'
HasPrefix(k, p, userId) == k.p = p /\ (IF p = "state" THEN DecPrefix(userId, k.c) ELSE k.c = userId)

\* what follows clearUserSessions in the calling handler
AfterClear(r) == IF r.h = "tokenReply" THEN [r EXCEPT !.pc = "put_token"] ELSE Finish(r, "cleared")

NextPrefix(r) == IF r.pi = Len(SessionPrefixes) THEN AfterClear(r) ELSE [r EXCEPT !.pc = "clr_list", !.pi = r.pi + 1]

\* env.DROPLET_CREATION.list({ prefix })
ClrList(t) ==
    /\ At(t, "clr_list")
    /\ LET ks == {k \in DOMAIN store : Live(k) /\ HasPrefix(k, SessionPrefixes[Me(t).pi], Me(t).chat)}
       IN IF ks = {}
          THEN Step(t, NextPrefix(Me(t)))
          ELSE Step(t, [Me(t) EXCEPT !.pc = "clr_del", !.todo = KeySeq(ks)])
    /\ UNCHANGED <<store, nextId, apiCalls>>

\* env.DROPLET_CREATION.delete(key.name), one listed key per await
ClrDel(t) ==
    /\ At(t, "clr_del")
    /\ store' = Delete(store, Head(Me(t).todo))
    /\ LET r == [Me(t) EXCEPT !.todo = Tail(Me(t).todo), !.deleted = TRUE]
       IN IF r.todo = << >> THEN Step(t, NextPrefix(r)) ELSE Step(t, r)
    /\ UNCHANGED <<nextId, apiCalls>>

\* env.DROPLET_CREATION.put(`api_token_${userId}`, apiToken)
PutToken(t) ==
    /\ At(t, "put_token")
    /\ store' = Put(store, TokenKey(Me(t).chat), [V0 EXCEPT !.cred = Me(t).arg.cred], 0)
    /\ Step(t, Finish([Me(t) EXCEPT !.wrote = TRUE], "saved"))
    /\ UNCHANGED <<nextId, apiCalls>>

\* ------------------------------------------------ wizard: region, image, size
\* region_: setState(chatId, { region })
RgSet(t) ==
    /\ At(t, "rg_set")
    /\ store' = Put(store, StateKey(Me(t).chat), [V0 EXCEPT !.region = Me(t).arg.region], STATE_TTL)
    /\ Step(t, Finish([Me(t) EXCEPT !.wrote = TRUE], "imgtypes"))
    /\ UNCHANGED <<nextId, apiCalls>>

\* selectimg_: showSizes reads the credential and fetches the image, the
\* regions and the sizes with it ...
SsApi(t) ==
    /\ At(t, "ss_api")
    /\ \E outcome \in {"ok", "none", "throw"} :
         CASE outcome = "ok" -> Step(t, [Me(t) EXCEPT !.pc = "ss_set", !.called = TRUE, !.apiToken = getUserApiToken(Me(t).chat)])
           [] outcome = "none" -> Step(t, Finish([Me(t) EXCEPT !.called = TRUE, !.apiToken = getUserApiToken(Me(t).chat)], "nosizes"))
           [] outcome = "throw" -> Step(t, Finish([Me(t) EXCEPT !.called = TRUE, !.apiToken = getUserApiToken(Me(t).chat)], "crash"))
    /\ UNCHANGED <<store, nextId, apiCalls>>

\* ... and saves { region, image } to the wizard state
SsSet(t) ==
    /\ At(t, "ss_set")
    /\ store' = Put(store, StateKey(Me(t).chat), [V0 EXCEPT !.region = Me(t).arg.region, !.image = Me(t).arg.image], STATE_TTL)
    /\ Step(t, Finish([Me(t) EXCEPT !.wrote = TRUE], "sizes"))
    /\ UNCHANGED <<nextId, apiCalls>>

\* size_: getState
SzGet(t) ==
    /\ At(t, "sz_get")
    /\ Step(t, [Me(t) EXCEPT !.pc = "sz_set", !.data = Get(StateKey(Me(t).chat))])
    /\ UNCHANGED <<store, nextId, apiCalls>>

\* size_: setState with size, region and image of the pressed button
SzSetOnFreshRead(t) ==
    /\ At(t, "sz_set")
    /\ store' = Put(store, StateKey(Me(t).chat), [Get(StateKey(Me(t).chat)) EXCEPT !.size = Me(t).arg.size, !.region = Me(t).arg.region, !.image = Me(t).arg.image], STATE_TTL)
    /\ Step(t, [Me(t) EXCEPT !.pc = "sz_put", !.wrote = TRUE])
    /\ UNCHANGED <<nextId, apiCalls>>

SzSet(t) ==
    /\ At(t, "sz_set")
    /\ store' = Put(store, StateKey(Me(t).chat), [Me(t).data EXCEPT !.size = Me(t).arg.size, !.region = Me(t).arg.region, !.image = Me(t).arg.image], STATE_TTL)
    /\ Step(t, [Me(t) EXCEPT !.pc = "sz_put", !.wrote = TRUE])
    /\ UNCHANGED <<nextId, apiCalls>>

\* Date.now().toString().slice(-4)
generateDropletName(imageId, size, region, ts) == [base |-> "droplet", size |-> size, region |-> region, ts |-> ts % 10000]

\* Date.now(): a later millisecond than every key minted so far, or the
\* millisecond in which a delivery still running minted its key
DateNow(t) == {n \in {nextId} : n <= MaxTokens} \cup {task[o].minted : o \in {x \in TaskIds \ {t} : Active(x) /\ task[x].minted # 0}}

Minted(n) == nextId' = IF n = nextId THEN nextId + 1 ELSE nextId

\* askDropletName: the name session and its two buttons
askDropletName(t) ==
    /\ At(t, "sz_put")
    /\ \E n \in DateNow(t) :
         LET a == Me(t).arg
             k == Key("session", Me(t).chat, n)
         IN /\ Minted(n)
            /\ store' = Put(store, k, [V0 EXCEPT !.region = a.region, !.size = a.size, !.image = a.image, !.defaultName = generateDropletName(a.image, a.size, a.region, n)], NAME_SESSION_TTL)
            /\ Step(t, Finish([Me(t) EXCEPT !.wrote = TRUE, !.minted = n], "askname"))
    /\ UNCHANGED apiCalls

\* ------------------------------------------------- name entry and confirm
\* a handler without the `if (!dataStr)` early return
MissingIgnored(k) == FALSE

\* if (!dataStr): the record is absent, expired or deleted
Missing(k) == ~Live(k)

\* use_default_name_: the name session is read ...
UdGet(t) ==
    /\ At(t, "ud_get")
    /\ IF Missing(Me(t).key)
       THEN Step(t, Finish(Me(t), "expired"))
       ELSE Step(t, [Me(t) EXCEPT !.pc = "cf_keys", !.data = [Get(Me(t).key) EXCEPT !.name = Get(Me(t).key).defaultName]])
    /\ UNCHANGED <<store, nextId, apiCalls>>

\* ... and deleted after confirmDropletCreation returned
UdDel(t) ==
    /\ At(t, "ud_del")
    /\ store' = Delete(store, Me(t).key)
    /\ Step(t, Finish([Me(t) EXCEPT !.deleted = TRUE], Me(t).reply))
    /\ UNCHANGED <<nextId, apiCalls>>

\* rename_droplet_: the force-reply prompt carries the session id
RpGet(t) ==
    /\ At(t, "rp_get")
    /\ IF Missing(Me(t).key)
       THEN Step(t, Finish(Me(t), "expired"))
       ELSE Step(t, Finish(Me(t), "renameprompt"))
    /\ UNCHANGED <<store, nextId, apiCalls>>

\* reply to the rename prompt: the typed text becomes the name
RnGet(t) ==
    /\ At(t, "rn_get")
    /\ IF Missing(Me(t).key)
       THEN Step(t, Finish(Me(t), "expired"))
       ELSE Step(t, [Me(t) EXCEPT !.pc = "cf_keys", !.data = [Get(Me(t).key) EXCEPT !.name = Me(t).arg.name]])
    /\ UNCHANGED <<store, nextId, apiCalls>>

\* without a usable credential the provider answers with an error body
KeysOutcomes(apiToken) == IF apiToken = "" THEN {"none", "throw"} ELSE {"keys", "none", "throw"}

\* after confirmDropletCreation returns: useDefaultNameAndConfirm still deletes
AfterConfirm(r, reply) == IF r.h = "useDefault" THEN [r EXCEPT !.pc = "ud_del", !.reply = reply] ELSE Finish(r, reply)

\* sshKeys.length === 0: the account has no SSH key
NoSshKeysIgnored(sshKeys) == FALSE

NoSshKeys(sshKeys) == sshKeys = {}

\* confirmDropletCreation: the credential is read and GET /account/keys is
\* sent with it ...
CfKeys(t) ==
    /\ At(t, "cf_keys")
    /\ LET tok == getUserApiToken(Me(t).chat)
           r == [Me(t) EXCEPT !.called = TRUE, !.apiToken = tok]
       IN \E outcome \in KeysOutcomes(tok) :
            CASE outcome = "throw" -> Step(t, Finish(r, "crash"))
              [] OTHER -> LET sshKeys == IF outcome = "keys" THEN SshKeysOf(tok) ELSE {}
                          IN IF NoSshKeys(sshKeys)
                             THEN Step(t, AfterConfirm(r, "nokeys"))
                             ELSE Step(t, [r EXCEPT !.pc = "cf_put", !.data.ssh = sshKeys])
    /\ UNCHANGED <<store, nextId, apiCalls>>

\* ... and the pending creation with its Create button
confirmDropletCreation(t) ==
    /\ At(t, "cf_put")
    /\ \E n \in DateNow(t) :
         LET d == Me(t).data
             k == Key("create", Me(t).chat, n)
         IN /\ Minted(n)
            /\ store' = Put(store, k, [V0 EXCEPT !.name = d.name, !.region = d.region, !.size = d.size, !.image = d.image, !.ssh = d.ssh], CREATE_TTL)
            /\ Step(t, AfterConfirm([Me(t) EXCEPT !.wrote = TRUE, !.minted = n], "confirm"))
    /\ UNCHANGED apiCalls

\* rebuildimg_: confirmRebuild stores the pending rebuild
confirmRebuild(t) ==
    /\ At(t, "rb_put")
    /\ \E n \in DateNow(t) :
         LET k == Key("rebuild", Me(t).chat, n)
         IN /\ Minted(n)
            /\ store' = Put(store, k, [V0 EXCEPT !.droplet = Me(t).arg.droplet, !.image = Me(t).arg.image], REBUILD_TTL)
            /\ Step(t, Finish([Me(t) EXCEPT !.wrote = TRUE, !.minted = n], "confirmrebuild"))
    /\ UNCHANGED apiCalls

\* ------------------------------------------------------------------ execute
\* createDropletFromKV / executeRebuild: the credential ...
ExToken(t) ==
    /\ At(t, "ex_token")
    /\ Step(t, [Me(t) EXCEPT !.pc = "ex_get", !.apiToken = getUserApiToken(Me(t).chat)])
    /\ UNCHANGED <<store, nextId, apiCalls>>

\* ... the pending record ...
ExGet(t) ==
    /\ At(t, "ex_get")
    /\ IF Missing(Me(t).key)
       THEN Step(t, Finish(Me(t), "expired"))
       ELSE Step(t, [Me(t) EXCEPT !.pc = "ex_call", !.data = Get(Me(t).key)])
    /\ UNCHANGED <<store, nextId, apiCalls>>

ExecOp(h) == IF h = "confirmcreate" THEN "create" ELSE "rebuild"

\* the request body built from the record
Request(r) == [op |-> ExecOp(r.h), cred |-> r.apiToken, name |-> r.data.name, region |-> r.data.region, size |-> r.data.size, image |-> r.data.image, ssh |-> r.data.ssh, droplet |-> r.data.droplet]

\* the mutating requests issued so far are counted per press, up to "twice or more"
Count(calls, id) == [x \in (DOMAIN calls) \cup {id} |-> IF x = id THEN (IF id \in DOMAIN calls THEN 2 ELSE 1) ELSE calls[x]]

Calls(id) == IF id \in DOMAIN apiCalls THEN apiCalls[id] ELSE 0

\* what identifies the press of a mutating request
Logged(r, op) == [op |-> op, key |-> r.key, droplet |-> r.arg.droplet]

CallOutcomes(apiToken) == IF apiToken = "" THEN {"fail", "throw"} ELSE {"ok", "fail", "throw"}

\* ... POST /droplets or POST /droplets/{id}/actions; result.droplet /
\* result.action decides the branch
ExCall(t) ==
    /\ At(t, "ex_call")
    /\ apiCalls' = Count(apiCalls, Logged(Me(t), ExecOp(Me(t).h)))
    /\ \E outcome \in CallOutcomes(Me(t).apiToken) :
         CASE outcome = "ok" -> Step(t, [Me(t) EXCEPT !.pc = "ex_del", !.called = TRUE])
           [] outcome = "fail" -> Step(t, Finish([Me(t) EXCEPT !.called = TRUE], "failed"))
           [] outcome = "throw" -> Step(t, Finish([Me(t) EXCEPT !.called = TRUE], "crash"))
    /\ UNCHANGED <<store, nextId>>

\* ... and, in the success branch only, the delete of the record
ExDel(t) ==
    /\ At(t, "ex_del")
    /\ store' = Delete(store, Me(t).key)
    /\ Step(t, Finish([Me(t) EXCEPT !.deleted = TRUE], "success"))
    /\ UNCHANGED <<nextId, apiCalls>>

\* ------------------------------------------------------------------- delete
DlToken(t) ==
    /\ At(t, "dl_token")
    /\ Step(t, [Me(t) EXCEPT !.pc = "dl_call", !.apiToken = getUserApiToken(Me(t).chat)])
    /\ UNCHANGED <<store, nextId, apiCalls>>

\* deleteDroplet: DELETE /droplets/{id}; 204 -> Deleted, else Failed
deleteDroplet(t) ==
    /\ At(t, "dl_call")
    /\ apiCalls' = Count(apiCalls, Logged(Me(t), "delete"))
    /\ \E outcome \in CallOutcomes(Me(t).apiToken) :
         CASE outcome = "ok" -> Step(t, Finish([Me(t) EXCEPT !.called = TRUE], "success"))
           [] outcome = "fail" -> Step(t, Finish([Me(t) EXCEPT !.called = TRUE], "failed"))
           [] outcome = "throw" -> Step(t, Finish([Me(t) EXCEPT !.called = TRUE], "crash"))
    /\ UNCHANGED <<store, nextId>>

\* ------------------------------------------------------------- environment
\* a count is kept while its record can still be consumed: while it is in the
\* store or a delivery in flight has read it (a delete press has no record)
Trim(calls, s, tk) == [id \in {x \in DOMAIN calls : x.key = NoKey \/ x.key \in DOMAIN s \/ \E o \in DOMAIN tk : tk[o].pc # "idle" /\ tk[o].key = x.key} |-> calls[id]]

\* the webhook answers 'OK'
Return(t) ==
    /\ At(t, "done")
    /\ Step(t, Idle)
    /\ apiCalls' = Trim(apiCalls, store, task')
    /\ UNCHANGED <<store, nextId>>

\* five minutes pass: every expirationTtl has five minutes less to run, and
\* the keys whose time is up are gone
Tick ==
    /\ \E k \in DOMAIN store : store[k].exp > 0
    /\ store' = [k \in {x \in DOMAIN store : store[x].exp # 1} |-> [store[k] EXCEPT !.exp = IF @ = 0 THEN 0 ELSE @ - 1]]
    /\ apiCalls' = Trim(apiCalls, store', task)
    /\ UNCHANGED <<nextId, task>>

Next ==
    \/ \E t \in TaskIds : MsgTokenReply(t)
    \/ \E t \in TaskIds : MsgRenameReply(t)
    \/ \E t \in TaskIds : PressRegion(t)
    \/ \E t \in TaskIds : PressSelectImg(t)
    \/ \E t \in TaskIds : PressSize(t)
    \/ \E t \in TaskIds : PressUseDefault(t)
    \/ \E t \in TaskIds : PressRename(t)
    \/ \E t \in TaskIds : PressConfirmCreate(t)
    \/ \E t \in TaskIds : PressExecuteRebuild(t)
    \/ \E t \in TaskIds : PressRebuildImg(t)
    \/ \E t \in TaskIds : PressDelete(t)
    \/ \E t \in TaskIds : Validate(t)
    \/ \E t \in TaskIds : ClrList(t)
    \/ \E t \in TaskIds : ClrDel(t)
    \/ \E t \in TaskIds : PutToken(t)
    \/ \E t \in TaskIds : RgSet(t)
    \/ \E t \in TaskIds : SsApi(t)
    \/ \E t \in TaskIds : SsSet(t)
    \/ \E t \in TaskIds : SzGet(t)
    \/ \E t \in TaskIds : SzSet(t)
    \/ \E t \in TaskIds : askDropletName(t)
    \/ \E t \in TaskIds : UdGet(t)
    \/ \E t \in TaskIds : UdDel(t)
    \/ \E t \in TaskIds : RpGet(t)
    \/ \E t \in TaskIds : RnGet(t)
    \/ \E t \in TaskIds : CfKeys(t)
    \/ \E t \in TaskIds : confirmDropletCreation(t)
    \/ \E t \in TaskIds : confirmRebuild(t)
    \/ \E t \in TaskIds : ExToken(t)
    \/ \E t \in TaskIds : ExGet(t)
    \/ \E t \in TaskIds : ExCall(t)
    \/ \E t \in TaskIds : ExDel(t)
    \/ \E t \in TaskIds : DlToken(t)
    \/ \E t \in TaskIds : deleteDroplet(t)
    \/ \E t \in TaskIds : Return(t)
    \/ Tick

Spec == Init /\ [][Next]_vars


\* ------------------------------------------------- overlapping deliveries
\* The worker runs deliveries concurrently.  The overlap is explored from the
\* two situations in which a Confirm button is on the screen: operator 1 has
\* stored credential c1 and then either went through the wizard with the
\* default name (size press, use-default press) or picked a rebuild image.
StartCredential == Put(<< >>, TokenKey(1), [V0 EXCEPT !.cred = "c1"], 0)

StartCreate ==
    /\ store = Put(Put(StartCredential, StateKey(1), [V0 EXCEPT !.size = "s-1vcpu-1gb", !.region = "nyc1", !.image = "img1"], STATE_TTL),
                   Key("create", 1, 2),
                   [V0 EXCEPT !.name = generateDropletName("img1", "s-1vcpu-1gb", "nyc1", 1), !.region = "nyc1", !.size = "s-1vcpu-1gb", !.image = "img1", !.ssh = SshKeysOf("c1")],
                   CREATE_TTL)
    /\ nextId = 3
    /\ apiCalls = << >>

StartRebuild ==
    /\ store = Put(StartCredential, Key("rebuild", 1, 1), [V0 EXCEPT !.droplet = 7, !.image = "img1"], REBUILD_TTL)
    /\ nextId = 2
    /\ apiCalls = << >>

InitRace ==
    /\ StartCreate \/ StartRebuild
    /\ task = [t \in {1, 2} |-> Idle]

NextRace ==
    \/ \E t \in TaskIds : MsgTokenReply(t)
    \/ \E t \in TaskIds : PressConfirmCreate(t)
    \/ \E t \in TaskIds : PressExecuteRebuild(t)
    \/ \E t \in TaskIds : Validate(t)
    \/ \E t \in TaskIds : ClrList(t)
    \/ \E t \in TaskIds : ClrDel(t)
    \/ \E t \in TaskIds : PutToken(t)
    \/ \E t \in TaskIds : ExToken(t)
    \/ \E t \in TaskIds : ExGet(t)
    \/ \E t \in TaskIds : ExCall(t)
    \/ \E t \in TaskIds : ExDel(t)
    \/ \E t \in TaskIds : Return(t)
    \/ Tick

SpecRace == InitRace /\ [][NextRace]_vars


\* --------------------------------------------------------- entered names
\* text.trim() of a reply to the rename prompt, as typed by the operator
EnteredNames == {"web-01", "app.prod", "my_server", "my server", "@server"}

\* the characters of an entered name
Chars(n) ==
    CASE n = "web-01" -> <<"w", "e", "b", "-", "0", "1">>
      [] n = "app.prod" -> <<"a", "p", "p", ".", "p", "r", "o", "d">>
      [] n = "my_server" -> <<"m", "y", "_", "s", "e", "r", "v", "e", "r">>
      [] n = "my server" -> <<"m", "y", " ", "s", "e", "r", "v", "e", "r">>
      [] n = "@server" -> <<"@", "s", "e", "r", "v", "e", "r">>

Letters == {"a", "b", "c", "d", "e", "f", "g", "h", "i", "j", "k", "l", "m", "n", "o", "p", "q", "r", "s", "t", "u", "v", "w", "x", "y", "z"}

Digits == {"0", "1", "2", "3", "4", "5", "6", "7", "8", "9"}

MsgRenameEntered(t) == \E u \in Users, c \in Chats, k \in KeysOf("session"), n \in EnteredNames : handleMessage(t, u, c, "renameReply", k, [V0 EXCEPT !.name = TypedName(n)])

\* the name prompt is on the screen: operator 1 has stored credential c1 and
\* pressed a size
StartSession ==
    /\ store = Put(Put(StartCredential, StateKey(1), [V0 EXCEPT !.size = "s-1vcpu-1gb", !.region = "nyc1", !.image = "img1"], STATE_TTL),
                   Key("session", 1, 1),
                   [V0 EXCEPT !.region = "nyc1", !.size = "s-1vcpu-1gb", !.image = "img1", !.defaultName = generateDropletName("img1", "s-1vcpu-1gb", "nyc1", 1)],
                   NAME_SESSION_TTL)
    /\ nextId = 2
    /\ apiCalls = << >>

InitName ==
    /\ StartSession
    /\ task = [t \in {1} |-> Idle]

NextName ==
    \/ \E t \in TaskIds : PressRename(t)
    \/ \E t \in TaskIds : MsgRenameEntered(t)
    \/ \E t \in TaskIds : RpGet(t)
    \/ \E t \in TaskIds : RnGet(t)
    \/ \E t \in TaskIds : CfKeys(t)
    \/ \E t \in TaskIds : confirmDropletCreation(t)
    \/ \E t \in TaskIds : Return(t)
    \/ Tick

SpecName == InitName /\ [][NextName]_vars

\* the allow-list of the specification: letters, digits, '.' and '-'
ValidName(n) == \A i \in 1..Len(Chars(n)) : Chars(n)[i] \in Letters \cup Digits \cup {".", "-"}

\* ================================================== cancel in the wizard
\* callback cancel_create
PressCancel(t) == \E u \in Users, c \in Chats : handleCallbackQuery(t, u, c, "cancel", NoKey, V0)

\* cancel_create: clearState(chatId), then the message becomes 'Cancelled.'
CnClear(t) ==
    /\ At(t, "cn_clear")
    /\ store' = Delete(store, StateKey(Me(t).chat))
    /\ Step(t, Finish([Me(t) EXCEPT !.deleted = TRUE], "cancelled"))
    /\ UNCHANGED <<nextId, apiCalls>>

\* callback_data prefixes of the inline keyboard a wizard screen has
Keyboard(screen) ==
    CASE screen = "regions" -> {"region_"}
      [] screen = "imgtypes" -> {"imgtype_", "back_to_regions"}
      [] screen = "list" -> {"selectimg_", "imgpage_", "imgsearch_", "back_to_regions"}
      [] screen = "results" -> {"selectimg_", "imgpage_", "back_from_search_"}
      [] screen = "sizes" -> {"size_", "back_to_regions"}
      [] screen = "askname" -> {"use_default_name_", "rename_droplet_", "back_to_regions"}
      [] screen = "confirm" -> {"confirmcreate_", "back_to_regions"}
      [] screen = "noresults" -> {"back_from_search_"}
      [] screen = "rebuildtypes" -> {"rebuildtype_", "droplet_"}
      [] screen = "rebuildlist" -> {"rebuildimg_", "rebuildpage_", "rebuildsearch_", "rebuild_"}
      [] screen = "rebuildresults" -> {"rebuildimg_", "back_from_rebuild_search_"}
      [] screen = "rebuildnoresults" -> {"back_from_rebuild_search_"}
      [] screen = "confirmrebuild" -> {"execute_rebuild_", "droplet_"}
      [] OTHER -> {}

\* the name prompt is on the screen; Use Default, Create and Cancel follow
NextWizard ==
    \/ \E t \in TaskIds : PressUseDefault(t)
    \/ \E t \in TaskIds : UdGet(t)
    \/ \E t \in TaskIds : CfKeys(t)
    \/ \E t \in TaskIds : confirmDropletCreation(t)
    \/ \E t \in TaskIds : UdDel(t)
    \/ \E t \in TaskIds : PressCancel(t)
    \/ \E t \in TaskIds : CnClear(t)
    \/ \E t \in TaskIds : Return(t)
    \/ Tick

SpecWizard == InitName /\ [][NextWizard]_vars

\* ================================================= image catalog and cache
\* 'all_images_cache': one entry for every operator
ImagesCacheKey == Key("all_images_cache", 0, 0)

CacheTicks == CACHE_TTL \div TickSeconds

\* meta.total of the remote listing: empty, one item, and a full and an
\* overfull last page for every page count up to MaxPages
Totals == {0, 1} \cup {p * IMAGES_PER_PAGE + d : p \in 1..(MaxPages - 1), d \in {0, 1}}

\* number of private images the account may hold
SnapTotals == {0, 24}

ImageTypes == {"os", "app", "snapshot"}

Min(a, b) == IF a <= b THEN a ELSE b

\* Math.floor(a / b)
Floor(a, b) == a \div b

\* Math.ceil(a / b)
Ceil(a, b) == (a + b - 1) \div b

\* images of /images?page=p&per_page=IMAGES_PER_PAGE when the listing has n
\* items: the public image i is the i-th of the provider's order
PageOf(p, n) == LET first == (p - 1) * IMAGES_PER_PAGE IN IF first >= n THEN <<>> ELSE [i \in 1..(Min(n, p * IMAGES_PER_PAGE) - first) |-> first + i]

\* images of /images?private=true: the private image -i is the i-th
Private(n) == [i \in 1..n |-> 0 - i]

\* the fields of an image follow from its position in the listing
Idx(i) == IF i > 0 THEN i - 1 ELSE (0 - i) - 1

ItemStatus(i) == IF Idx(i) % 2 = 0 THEN "available" ELSE "retired"

ItemType(i) == IF i < 0 THEN "snapshot" ELSE IF (Idx(i) \div 2) % 2 = 0 THEN "base" ELSE "application"

ItemMinDisk(i) == IF (Idx(i) \div 4) % 2 = 0 THEN 10 ELSE 25

ItemRegions(i) == CASE (Idx(i) \div 8) % 3 = 0 -> {} [] (Idx(i) \div 8) % 3 = 1 -> {"nyc1"} [] OTHER -> {"fra1"}

\* Array.prototype.filter with the predicate given as the set it accepts
Filter(seq, keep) == LET Test(x) == x \in keep IN SelectSeq(seq, Test)

Elems(seq) == {seq[i] : i \in 1..Len(seq)}

\* Array.prototype.slice(start, end)
Slice(seq, start, end) == SubSeq(seq, start + 1, Min(end, Len(seq)))

\* getImagesByType: snapshots as listed, the rest filtered by type and status
TypeFilter(type) == IF type = "os" THEN "base" ELSE IF type = "app" THEN "application" ELSE type

ByType(all, type) == IF type = "snapshot" THEN all ELSE Filter(all, {i \in Elems(all) : ItemType(i) = TypeFilter(type) /\ ItemStatus(i) = "available"})

filterImagesByRegion(images, region) == Filter(images, {i \in Elems(images) : ItemRegions(i) = {} \/ region \in ItemRegions(i)})

\* the four kinds of name, slug and description an image comes with
ItemKind(i) == (Idx(i) \div 24) % 4

ItemName(i) == CASE ItemKind(i) = 0 -> "Docker" [] ItemKind(i) = 1 -> "Ubuntu" [] ItemKind(i) = 2 -> "Registry" [] OTHER -> "Nginx"

ItemSlug(i) == CASE ItemKind(i) = 0 -> "docker-20-04" [] ItemKind(i) = 1 -> "ubuntu-22-04" [] ItemKind(i) = 2 -> "docker-registry" [] OTHER -> "nginx"

ItemDescription(i) == CASE ItemKind(i) = 0 -> "containers" [] ItemKind(i) = 1 -> "with docker" [] ItemKind(i) = 2 -> "images" [] OTHER -> "web server"

\* the characters of the strings of the model
Spell(w) ==
    CASE w = "Docker" -> <<"D", "o", "c", "k", "e", "r">>
      [] w = "Ubuntu" -> <<"U", "b", "u", "n", "t", "u">>
      [] w = "Registry" -> <<"R", "e", "g", "i", "s", "t", "r", "y">>
      [] w = "Nginx" -> <<"N", "g", "i", "n", "x">>
      [] w = "docker-20-04" -> <<"d", "o", "c", "k", "e", "r", "-", "2", "0", "-", "0", "4">>
      [] w = "ubuntu-22-04" -> <<"u", "b", "u", "n", "t", "u", "-", "2", "2", "-", "0", "4">>
      [] w = "docker-registry" -> <<"d", "o", "c", "k", "e", "r", "-", "r", "e", "g", "i", "s", "t", "r", "y">>
      [] w = "nginx" -> <<"n", "g", "i", "n", "x">>
      [] w = "containers" -> <<"c", "o", "n", "t", "a", "i", "n", "e", "r", "s">>
      [] w = "with docker" -> <<"w", "i", "t", "h", " ", "d", "o", "c", "k", "e", "r">>
      [] w = "images" -> <<"i", "m", "a", "g", "e", "s">>
      [] w = "web server" -> <<"w", "e", "b", " ", "s", "e", "r", "v", "e", "r">>
      [] w = "/clearcache" -> <<"/", "c", "l", "e", "a", "r", "c", "a", "c", "h", "e">>
      [] w = "/create" -> <<"/", "c", "r", "e", "a", "t", "e">>
      [] w = "do" -> <<"d", "o">>
      [] w = "DOC" -> <<"D", "O", "C">>
      [] w = "ngi" -> <<"n", "g", "i">>
      [] w = "zzz" -> <<"z", "z", "z">>

\* String.prototype.toLowerCase, on the capitals the strings use
LowerChar(ch) == CASE ch = "C" -> "c" [] ch = "D" -> "d" [] ch = "N" -> "n" [] ch = "O" -> "o" [] ch = "R" -> "r" [] ch = "U" -> "u" [] OTHER -> ch

toLowerCase(w) == [i \in 1..Len(Spell(w)) |-> LowerChar(Spell(w)[i])]

\* String.prototype.includes on character sequences
includes(hay, needle) == \E i \in 0..(Len(hay) - Len(needle)) : SubSeq(hay, i + 1, i + Len(needle)) = needle

\* a search that also looks at the slug and the description (searchApps)
MatchesAnyField(i, query) == \E w \in {ItemName(i), ItemSlug(i), ItemDescription(i)} : includes(toLowerCase(w), toLowerCase(query))

\* img.name.toLowerCase().includes(searchTerm)
Matches(i, query) == includes(toLowerCase(ItemName(i)), toLowerCase(query))

\* a filter that looks at the regions only
filterImagesForRebuildByRegion(images, droplet) == Filter(images, {i \in Elems(images) : ItemRegions(i) = {} \/ droplet.region \in ItemRegions(i)})

filterImagesForRebuild(images, droplet) == Filter(images, {i \in Elems(images) : /\ ItemStatus(i) = "available" /\ ~(ItemMinDisk(i) > droplet.disk) /\ ~(ItemRegions(i) # {} /\ droplet.region \notin ItemRegions(i))})

\* showRebuildImagesList after getImagesByType returned
ShowRebuildImages(r) ==
    LET allImages == filterImagesForRebuild(ByType(r.img.allImages, r.img.type), r.droplet)
    IN IF Len(allImages) = 0
       THEN Finish(r, "noimages")
       ELSE Finish([r EXCEPT !.img.offered = Slice(allImages, r.arg.page * ITEMS_PER_PAGE, r.arg.page * ITEMS_PER_PAGE + ITEMS_PER_PAGE)], "list")

\* the results of a search are shown, or 'No results found'; clearState
\* is the await that remains
ShowResults(r, results) == [r EXCEPT !.pc = "sr_clear", !.img.results = results, !.img.offered = Slice(results, 0, ITEMS_PER_PAGE)]

\* handleImageSearch after getImagesByType returned
SearchImages(r) ==
    LET allImages == filterImagesByRegion(ByType(r.img.allImages, r.img.type), r.data.region)
    IN ShowResults(r, Filter(allImages, {i \in Elems(allImages) : Matches(i, r.arg.query)}))

\* handleRebuildImageSearch after getImagesByType returned: with droplet
\* undefined the filter throws at the first available image it looks at
SearchRebuildImages(r) ==
    LET images == ByType(r.img.allImages, r.img.type)
    IN IF r.droplet = NoDroplet /\ \E i \in Elems(images) : ItemStatus(i) = "available"
       THEN Finish(r, "error")
       ELSE LET allImages == filterImagesForRebuild(images, r.droplet)
            IN ShowResults(r, Filter(allImages, {i \in Elems(allImages) : Matches(i, r.arg.query)}))

\* showImagesList after getImagesByType returned
ShowImages(r) ==
    LET allImages == filterImagesByRegion(ByType(r.img.allImages, r.img.type), r.arg.region)
    IN IF Len(allImages) = 0
       THEN Finish(r, "noimages")
       ELSE Finish([r EXCEPT !.img.offered = Slice(allImages, r.arg.page * ITEMS_PER_PAGE, r.arg.page * ITEMS_PER_PAGE + ITEMS_PER_PAGE)], "list")

\* what the calling handler does with the images getImagesByType returned
\* showImagesListEdit: page arg.page of the images of the type in the region
showImagesListEdit(r) ==
    LET allImages == filterImagesByRegion(ByType(r.img.allImages, r.img.type), r.arg.region)
    IN Finish([r EXCEPT !.img.offered = Slice(allImages, r.arg.page * ITEMS_PER_PAGE, r.arg.page * ITEMS_PER_PAGE + ITEMS_PER_PAGE)], "list")

AfterImages(r) ==
    LET q == [r EXCEPT !.img.returned = TRUE]
    IN CASE q.h = "imgtype" -> ShowImages(q)
         [] q.h = "imgpage" -> showImagesListEdit(q)
         [] q.h \in {"rebuildtype", "rebuildpage"} -> ShowRebuildImages(q)
         [] q.h = "text" /\ q.data.step = "searching_image" -> SearchImages(q)
         [] OTHER -> SearchRebuildImages(q)

\* a getImagesByType without the snapshot branch
ImagesByTypeCached(r, type) == [r EXCEPT !.img.type = type, !.pc = "ga_get"]

\* getImagesByType: the first await of the class asked for
ImagesByType(r, type) == [r EXCEPT !.img.type = type, !.pc = IF type = "snapshot" THEN "gs_call" ELSE "ga_get"]

\* a getAllImages that never takes the cached entry
CacheNeverUsable(k) == FALSE

\* if (cached) return JSON.parse(cached): any stored string is truthy
CacheUsable(k) == Live(k)

\* env.DROPLET_CREATION.get('all_images_cache')
GaGet(t) ==
    /\ At(t, "ga_get")
    /\ IF CacheUsable(ImagesCacheKey)
       THEN Step(t, AfterImages([Me(t) EXCEPT !.img.allImages = Get(ImagesCacheKey).items, !.img.hit = Live(ImagesCacheKey)]))
       ELSE Step(t, [Me(t) EXCEPT !.pc = "ga_first", !.img.hit = Live(ImagesCacheKey)])
    /\ UNCHANGED <<store, nextId, apiCalls>>

\* outcomes of one doApiCall: a listing, a JSON error body, a thrown fetch
PageOutcomes == {"ok", "error", "throw"}

\* the catch of getAllImages / getSnapshots: return []
Caught(r) == AfterImages([r EXCEPT !.img.allImages = <<>>, !.img.failed = TRUE])

\* entry of the `for (page = 2; page <= totalPages; page++)` loop
Remaining(r) == IF r.img.page <= r.img.totalPages THEN [r EXCEPT !.pc = "ga_page"] ELSE [r EXCEPT !.pc = "ga_put"]

\* doApiCall('/images?page=1&per_page=200')
GaFirst(t) ==
    /\ At(t, "ga_first")
    /\ \E out \in PageOutcomes, n \in Totals :
         /\ out # "ok" => n = 0
         /\ LET r == [Me(t) EXCEPT !.img.req = <<1>>, !.img.page = 2]
            IN CASE out = "throw" -> Step(t, Caught(r))
                 [] out = "error" -> Step(t, Remaining([r EXCEPT !.img.failed = TRUE, !.img.totalPages = 1]))
                 [] out = "ok" -> Step(t, Remaining([r EXCEPT !.img.allImages = PageOf(1, n), !.img.n = n, !.img.totalPages = IF n # 0 THEN Ceil(n, IMAGES_PER_PAGE) ELSE 1]))
    /\ UNCHANGED <<store, nextId, apiCalls>>

\* doApiCall(`/images?page=${page}&per_page=200`)
GaPage(t) ==
    /\ At(t, "ga_page")
    /\ \E out \in PageOutcomes :
         LET r == [Me(t) EXCEPT !.img.req = Append(@, Me(t).img.page), !.img.page = @ + 1]
         IN CASE out = "throw" -> Step(t, Caught(r))
              [] out = "error" -> Step(t, Remaining([r EXCEPT !.img.failed = TRUE]))
              [] out = "ok" -> Step(t, Remaining([r EXCEPT !.img.allImages = @ \o PageOf(Me(t).img.page, Me(t).img.n)]))
    /\ UNCHANGED <<store, nextId, apiCalls>>

\* env.DROPLET_CREATION.put('all_images_cache', ..., { expirationTtl: CACHE_TTL })
GaPut(t) ==
    /\ At(t, "ga_put")
    /\ store' = Put(store, ImagesCacheKey, [V0 EXCEPT !.items = Me(t).img.allImages], CACHE_TTL)
    /\ Step(t, AfterImages([Me(t) EXCEPT !.img.put = TRUE]))
    /\ UNCHANGED <<nextId, apiCalls>>

\* getSnapshots: doApiCall('/images?private=true'), request number 0
GsCall(t) ==
    /\ At(t, "gs_call")
    /\ \E out \in PageOutcomes, n \in SnapTotals :
         /\ out # "ok" => n = 0
         /\ LET r == [Me(t) EXCEPT !.img.req = <<0>>]
            IN CASE out = "throw" -> Step(t, Caught(r))
                 [] out = "error" -> Step(t, AfterImages([r EXCEPT !.img.failed = TRUE]))
                 [] out = "ok" -> Step(t, AfterImages([r EXCEPT !.img.allImages = Private(n), !.img.n = n]))
    /\ UNCHANGED <<store, nextId, apiCalls>>

\* callback imgtype_<region>_<type>: showImagesList(chatId, region, type, 0)
PressImgType(t) == \E u \in Users, c \in Chats, rg \in Regions, ty \in ImageTypes : handleCallbackQuery(t, u, c, "imgtype", NoKey, [V0 EXCEPT !.region = rg, !.type = ty])

\* showImagesList: getUserApiToken, then getImagesByType
IlToken(t) ==
    /\ At(t, "il_token")
    /\ LET r == [Me(t) EXCEPT !.apiToken = getUserApiToken(Me(t).chat)]
       IN IF r.apiToken = "" THEN Step(t, Finish(r, "notoken")) ELSE Step(t, ImagesByType(r, r.arg.type))
    /\ UNCHANGED <<store, nextId, apiCalls>>

\* deleteMessage(chatId, messageId): the message of the pressed button goes
deleteMessage(r) == [r EXCEPT !.msgDeleted = TRUE]

\* editMessage(chatId, messageId, ...): Telegram changes nothing when the
\* message is gone, and the answer of the request is not looked at
editMessage(r, screen) == Finish(r, IF r.msgDeleted THEN "nothing" ELSE screen)

\* callback back_from_search_<region>
PressBackFromSearch(t) == \E u \in Users, c \in Chats, rg \in Regions : handleCallbackQuery(t, u, c, "backFromSearch", NoKey, [V0 EXCEPT !.region = rg])

\* callback back_from_rebuild_search_<dropletId>
PressBackFromRebuildSearch(t) == \E u \in Users, c \in Chats, d \in Droplets : handleCallbackQuery(t, u, c, "backFromRebuildSearch", NoKey, [V0 EXCEPT !.droplet = d])

\* clearState, deleteMessage, then showImageTypeSelection (a new message)
\* or showRebuildImageTypeSelection (an edit of messageId)
BkClear(t) ==
    /\ At(t, "bk_clear")
    /\ store' = Delete(store, StateKey(Me(t).chat))
    /\ LET r == deleteMessage([Me(t) EXCEPT !.deleted = TRUE])
       IN IF r.h = "backFromSearch" THEN Step(t, Finish(r, "imgtypes")) ELSE Step(t, editMessage(r, "rebuildtypes"))
    /\ UNCHANGED <<nextId, apiCalls>>

\* texts an operator sends outside a reply
Texts == {"/clearcache", "do", "DOC", "ngi", "zzz"}

MsgText(t) == \E u \in Users, c \in Chats, x \in Texts : handleMessage(t, u, c, "text", NoKey, [V0 EXCEPT !.query = x])

\* a search handler without the length check
NeverTooShort(query) == FALSE

\* if (query.length < MIN_SEARCH_LENGTH)
TooShort(query) == Len(Spell(query)) < MIN_SEARCH_LENGTH

SearchSteps == {"searching_image", "rebuild_searching_image"}

\* getState, the search modes, then the commands
TxState(t) ==
    /\ At(t, "tx_state")
    /\ LET r == [Me(t) EXCEPT !.data = Get(StateKey(Me(t).chat))]
       IN CASE r.data.step \in SearchSteps /\ TooShort(r.arg.query) -> Step(t, Finish(r, "tooshort"))
            [] r.data.step = "searching_image" /\ ~TooShort(r.arg.query) -> Step(t, [r EXCEPT !.pc = "is_token"])
            [] r.data.step = "rebuild_searching_image" /\ ~TooShort(r.arg.query) -> Step(t, [r EXCEPT !.pc = "rs_token"])
            [] r.data.step \notin SearchSteps /\ r.arg.query = "/clearcache" -> Step(t, [r EXCEPT !.pc = "cc_state"])
            [] r.data.step \notin SearchSteps /\ r.arg.query = "/create" -> Step(t, [r EXCEPT !.pc = "cr_clear"])
            [] OTHER -> Step(t, Finish(r, "ignored"))
    /\ UNCHANGED <<store, nextId, apiCalls>>

\* handleImageSearch: getUserApiToken, then getImagesByType(state.type)
IsToken(t) ==
    /\ At(t, "is_token")
    /\ Step(t, ImagesByType([Me(t) EXCEPT !.apiToken = getUserApiToken(Me(t).chat)], Me(t).data.type))
    /\ UNCHANGED <<store, nextId, apiCalls>>

\* showRebuildImagesList / handleRebuildImageSearch: getUserApiToken
RlToken(t) ==
    /\ Me(t).pc \in {"rl_token", "rs_token"}
    /\ Step(t, [Me(t) EXCEPT !.apiToken = getUserApiToken(Me(t).chat), !.pc = IF Me(t).pc = "rl_token" THEN "rl_droplet" ELSE "rs_droplet"])
    /\ UNCHANGED <<store, nextId, apiCalls>>

\* disk and region of the droplets of the account
DropletSpecs == {[disk |-> 20, region |-> "fra1"], [disk |-> 25, region |-> "nyc1"]}

\* showRebuildImagesList: GET /droplets/<id>; 'Droplet not found' without one
RlDroplet(t) ==
    /\ At(t, "rl_droplet")
    /\ \/ \E d \in DropletSpecs : Step(t, ImagesByType([Me(t) EXCEPT !.droplet = [id |-> Me(t).arg.droplet, disk |-> d.disk, region |-> d.region]], Me(t).arg.type))
       \/ Step(t, Finish(Me(t), "notfound"))
       \/ Step(t, Finish(Me(t), "error"))
    /\ UNCHANGED <<store, nextId, apiCalls>>

\* handleRebuildImageSearch: GET /droplets/<state.dropletId>, no check of
\* dropletData.droplet; a thrown fetch leaves the handler
RsDroplet(t) ==
    /\ At(t, "rs_droplet")
    /\ \/ \E d \in DropletSpecs : Step(t, ImagesByType([Me(t) EXCEPT !.droplet = [id |-> Me(t).data.droplet, disk |-> d.disk, region |-> d.region]], Me(t).data.type))
       \/ Step(t, ImagesByType(Me(t), Me(t).data.type))
       \/ Step(t, Finish(Me(t), "error"))
    /\ UNCHANGED <<store, nextId, apiCalls>>

\* clearState(chatId) that ends both search handlers
SrClear(t) ==
    /\ At(t, "sr_clear")
    /\ store' = Delete(store, StateKey(Me(t).chat))
    /\ Step(t, Finish(Me(t), IF Me(t).img.results = <<>> THEN "noresults" ELSE "results"))
    /\ UNCHANGED <<nextId, apiCalls>>

\* pages a rebuildpage_ button can carry
ListPages == {1, 2}

\* callback rebuildtype_<dropletId>_<type>: showRebuildImagesList, page 0
PressRebuildType(t) == \E u \in Users, c \in Chats, d \in Droplets, ty \in ImageTypes : handleCallbackQuery(t, u, c, "rebuildtype", NoKey, [V0 EXCEPT !.droplet = d, !.type = ty])

\* callback rebuildpage_<dropletId>_<type>_<page>
PressRebuildPage(t) == \E u \in Users, c \in Chats, d \in Droplets, ty \in ImageTypes, p \in ListPages : handleCallbackQuery(t, u, c, "rebuildpage", NoKey, [V0 EXCEPT !.droplet = d, !.type = ty, !.page = p])

\* callback imgsearch_<region>_<type>
PressImgSearch(t) == \E u \in Users, c \in Chats, rg \in Regions, ty \in ImageTypes : handleCallbackQuery(t, u, c, "imgsearch", NoKey, [V0 EXCEPT !.region = rg, !.type = ty])

\* callback rebuildsearch_<dropletId>_<type>
PressRebuildSearch(t) == \E u \in Users, c \in Chats, d \in Droplets, ty \in ImageTypes : handleCallbackQuery(t, u, c, "rebuildsearch", NoKey, [V0 EXCEPT !.droplet = d, !.type = ty])

\* setState({ step: 'searching_image', region, type }) or
\* setState({ step: 'rebuild_searching_image', dropletId, type })
SmSet(t) ==
    /\ At(t, "sm_set")
    /\ store' = Put(store, StateKey(Me(t).chat), [Me(t).arg EXCEPT !.step = IF Me(t).h = "imgsearch" THEN "searching_image" ELSE "rebuild_searching_image"], STATE_TTL)
    /\ Step(t, Finish([Me(t) EXCEPT !.wrote = TRUE], "prompt"))
    /\ UNCHANGED <<nextId, apiCalls>>

\* /clearcache: clearState(chatId)
CcState(t) ==
    /\ At(t, "cc_state")
    /\ store' = Delete(store, StateKey(Me(t).chat))
    /\ Step(t, [Me(t) EXCEPT !.pc = "cc_list"])
    /\ UNCHANGED <<nextId, apiCalls>>

\* prefixes of clearAllCache
CachePrefixesStale == <<"image_", "marketplace_apps">>

CachePrefixes == <<"all_images_cache">>

\* clearAllCache: list({ prefix }) for the one prefix; clearUserSessions next
CcList(t) ==
    /\ At(t, "cc_list")
    /\ LET ks == {k \in DOMAIN store : \E i \in 1..Len(CachePrefixes) : k.p = CachePrefixes[i]}
       IN IF ks = {}
          THEN Step(t, [Me(t) EXCEPT !.pc = "clr_list", !.pi = 1])
          ELSE Step(t, [Me(t) EXCEPT !.pc = "cc_del", !.todo = KeySeq(ks)])
    /\ UNCHANGED <<store, nextId, apiCalls>>

\* clearAllCache: delete(key.name), one listed key per await
CcDel(t) ==
    /\ At(t, "cc_del")
    /\ store' = Delete(store, Head(Me(t).todo))
    /\ LET r == [Me(t) EXCEPT !.todo = Tail(Me(t).todo), !.deletedCount = @ + 1]
       IN IF r.todo = << >> THEN Step(t, [r EXCEPT !.pc = "clr_list", !.pi = 1]) ELSE Step(t, r)
    /\ UNCHANGED <<nextId, apiCalls>>

\* d ticks pass at once
Elapse(d) ==
    /\ \E k \in DOMAIN store : store[k].exp > 0
    /\ store' = [k \in {x \in DOMAIN store : store[x].exp = 0 \/ store[x].exp > d} |-> [store[k] EXCEPT !.exp = IF @ = 0 THEN 0 ELSE @ - d]]
    /\ UNCHANGED <<nextId, task, apiCalls>>

\* operators whose credential is stored but who send nothing
Bystanders == {2}

\* credentials stored, a rebuild awaiting its confirmation, no cache entry
InitCatalog ==
    /\ store = Put([k \in {TokenKey(c) : c \in Chats \cup Bystanders} |-> [val |-> [V0 EXCEPT !.cred = "c1"], exp |-> 0]], Key("rebuild", 1, 1), [V0 EXCEPT !.droplet = 7, !.image = "img1"], REBUILD_TTL)
    /\ nextId = 2
    /\ task = [t \in {1} |-> Idle]
    /\ apiCalls = << >>

NextCatalog ==
    \/ \E t \in TaskIds : PressImgType(t)
    \/ \E t \in TaskIds : IlToken(t)
    \/ \E t \in TaskIds : GaGet(t)
    \/ \E t \in TaskIds : GaFirst(t)
    \/ \E t \in TaskIds : GaPage(t)
    \/ \E t \in TaskIds : GaPut(t)
    \/ \E t \in TaskIds : GsCall(t)
    \/ \E t \in TaskIds : MsgText(t)
    \/ \E t \in TaskIds : TxState(t)
    \/ \E t \in TaskIds : IsToken(t)
    \/ \E t \in TaskIds : RlToken(t)
    \/ \E t \in TaskIds : RlDroplet(t)
    \/ \E t \in TaskIds : RsDroplet(t)
    \/ \E t \in TaskIds : SrClear(t)
    \/ \E t \in TaskIds : PressRebuildType(t)
    \/ \E t \in TaskIds : PressRebuildPage(t)
    \/ \E t \in TaskIds : PressImgSearch(t)
    \/ \E t \in TaskIds : PressRebuildSearch(t)
    \/ \E t \in TaskIds : SmSet(t)
    \/ \E t \in TaskIds : PressBackFromSearch(t)
    \/ \E t \in TaskIds : PressBackFromRebuildSearch(t)
    \/ \E t \in TaskIds : BkClear(t)
    \/ \E t \in TaskIds : CcState(t)
    \/ \E t \in TaskIds : CcList(t)
    \/ \E t \in TaskIds : CcDel(t)
    \/ \E t \in TaskIds : ClrList(t)
    \/ \E t \in TaskIds : ClrDel(t)
    \/ \E t \in TaskIds : Return(t)
    \/ \E d \in {CacheTicks - 1, CacheTicks} : Elapse(d)

SpecCatalog == InitCatalog /\ [][NextCatalog]_vars

\* ==================================================== marketplace categories
\* MARKETPLACE_CATEGORIES.popular.slugs
PopularSlugs == {"wordpress-20-04", "docker-20-04", "nodejs-20-04", "mysql-20-04", "mariadb", "redis-7-22-04", "gitlab-gitlabenterprise-20-04", "nginx", "lamp-22-04", "lemp-22-04", "mean", "mern", "discourse-20-04", "ghost-20-04", "nextcloudgmbh-nextcloud"}

\* Object.entries(MARKETPLACE_CATEGORIES) without 'popular', in table order
CategoryOrder == <<"cms", "databases", "devtools", "webservers", "ai", "monitoring", "messaging", "control">>

\* category.keywords
Keywords(categoryId) ==
    CASE categoryId = "cms" -> <<"wordpress", "ghost", "joomla", "drupal", "discourse", "microweber">>
      [] categoryId = "databases" -> <<"mysql", "postgresql", "mongodb", "redis", "mariadb", "cassandra", "influxdb", "clickhouse", "questdb", "edgedb">>
      [] categoryId = "devtools" -> <<"docker", "gitlab", "jenkins", "git", "vscode", "code-server", "coder">>
      [] categoryId = "webservers" -> <<"nginx", "apache", "lamp", "lemp", "mean", "mern", "nodejs", "django", "flask", "rails", "farm">>
      [] categoryId = "ai" -> <<"jupyter", "pytorch", "tensorflow", "ollama", "deepseek", "ai", "ml", "anaconda", "rocm", "vllm">>
      [] categoryId = "monitoring" -> <<"grafana", "prometheus", "zabbix", "netdata", "uptimekuma", "uptime">>
      [] categoryId = "messaging" -> <<"mattermost", "rocket.chat", "matrix", "discord", "jitsi">>
      [] categoryId = "control" -> <<"plesk", "cpanel", "cloudron", "easypanel", "runcloud", "ispmanager", "caprover", "coolify">>

\* toLowerCase of a one-character string
LowerLetter(ch) ==
    CASE ch = "A" -> "a" [] ch = "B" -> "b" [] ch = "C" -> "c" [] ch = "D" -> "d" [] ch = "E" -> "e" [] ch = "F" -> "f" [] ch = "G" -> "g"
      [] ch = "H" -> "h" [] ch = "I" -> "i" [] ch = "J" -> "j" [] ch = "K" -> "k" [] ch = "L" -> "l" [] ch = "M" -> "m" [] ch = "N" -> "n"
      [] ch = "O" -> "o" [] ch = "P" -> "p" [] ch = "Q" -> "q" [] ch = "R" -> "r" [] ch = "S" -> "s" [] ch = "T" -> "t" [] ch = "U" -> "u"
      [] ch = "V" -> "v" [] ch = "W" -> "w" [] ch = "X" -> "x" [] ch = "Y" -> "y" [] ch = "Z" -> "z" [] OTHER -> ch

RECURSIVE lower(_)
\* String.prototype.toLowerCase on a string
lower(w) == IF Len(w) = 0 THEN "" ELSE LowerLetter(SubSeq(w, 1, 1)) \o lower(SubSeq(w, 2, Len(w)))

\* String.prototype.includes on strings
strIncludes(hay, needle) == \E i \in 0..(Len(hay) - Len(needle)) : SubSeq(hay, i + 1, i + Len(needle)) = needle

\* `${name} ${slug} ${description || ''}`, lowercased field by field
SearchText(app) == lower(app.name) \o " " \o lower(app.slug) \o " " \o lower(app.description)

\* the keyword groups that have a keyword in the text, by position
KeywordHits(text) == {c \in 1..Len(CategoryOrder) : \E k \in 1..Len(Keywords(CategoryOrder[c])) : strIncludes(text, Keywords(CategoryOrder[c])[k])}

\* the first group of the table whose keyword is found, else 'other'
ByKeyword(text) == IF KeywordHits(text) = {} THEN "other" ELSE CategoryOrder[CHOOSE c \in KeywordHits(text) : \A o \in KeywordHits(text) : c <= o]

\* a categorizeApp that tries the keyword groups before the popular slugs
categorizeAppKeywordsFirst(app) == IF ByKeyword(SearchText(app)) # "other" THEN ByKeyword(SearchText(app)) ELSE IF app.slug \in PopularSlugs THEN "popular" ELSE "other"

categorizeApp(app) == IF app.slug \in PopularSlugs THEN "popular" ELSE ByKeyword(SearchText(app))

\* grouped[category].push(app) for every app, in list order
groupAppsByCategory(apps) == [c \in {categorizeApp(apps[i]) : i \in 1..Len(apps)} |-> LET InGroup(a) == categorizeApp(a) = c IN SelectSeq(apps, InGroup)]

AppNames == {"WordPress MySQL", "Notes"}

AppSlugs == {"docker-20-04", "Nginx", "notes-1"}

AppDescriptions == {"", "Mail tool"}

\* marketplace apps as the 1-Click listing returns them
Apps == [name : AppNames, slug : AppSlugs, description : AppDescriptions]

RECURSIVE AppLists(_)
\* the lists of at most n apps
AppLists(n) == IF n = 0 THEN {<<>>} ELSE AppLists(n - 1) \cup {Append(l, a) : l \in {x \in AppLists(n - 1) : Len(x) = n - 1}, a \in Apps}

\* showCategoryApps: groupAppsByCategory(apps, categorizeApp)
GroupApps(t) ==
    /\ \E u \in ALLOWED_USER_IDS, c \in Chats, apps \in AppLists(MaxApps) \ {<<>>} :
         Begin(t, Finish([Idle EXCEPT !.h = "category", !.from = u, !.chat = c, !.apps = apps, !.grouped = groupAppsByCategory(apps)], "list"))

InitCategory == Init

NextCategory ==
    \/ \E t \in TaskIds : GroupApps(t)
    \/ \E t \in TaskIds : Return(t)

SpecCategory == InitCategory /\ [][NextCategory]_vars

\* ------------------------------------------- two operators in one group chat
\* message.chat.id of a group differs from message.from.id of its members
Operators == {1, 2}

SharedChat == 5

\* the token each operator replies with to the /setapi prompt
CredOf(u) == IF u = 1 THEN "c1" ELSE "c2"

GroupTokenReply(t) == \E u \in Operators : handleMessage(t, u, SharedChat, "tokenReply", NoKey, [V0 EXCEPT !.cred = CredOf(u)])

GroupSelectImg(t) == \E u \in Operators, r \in Regions, i \in Images : handleCallbackQuery(t, u, SharedChat, "selectimg", NoKey, [V0 EXCEPT !.region = r, !.image = i])

GroupDelete(t) == \E u \in Operators, d \in Droplets : handleCallbackQuery(t, u, SharedChat, "delete", NoKey, [V0 EXCEPT !.droplet = d])

NextShared ==
    \/ \E t \in TaskIds : GroupTokenReply(t)
    \/ \E t \in TaskIds : GroupSelectImg(t)
    \/ \E t \in TaskIds : GroupDelete(t)
    \/ \E t \in TaskIds : Validate(t)
    \/ \E t \in TaskIds : ClrList(t)
    \/ \E t \in TaskIds : ClrDel(t)
    \/ \E t \in TaskIds : PutToken(t)
    \/ \E t \in TaskIds : SsApi(t)
    \/ \E t \in TaskIds : SsSet(t)
    \/ \E t \in TaskIds : DlToken(t)
    \/ \E t \in TaskIds : deleteDroplet(t)
    \/ \E t \in TaskIds : Return(t)
    \/ Tick

SpecShared == Init /\ [][NextShared]_vars

\* ------------------------- two operators in private chats, ids 1 and 12
\* in a private chat message.chat.id equals message.from.id
Neighbours == {1, 12}

PrivTokenReply(t) == \E u \in Neighbours, tok \in Creds : handleMessage(t, u, u, "tokenReply", NoKey, [V0 EXCEPT !.cred = tok])

PrivRegion(t) == \E u \in Neighbours, r \in Regions : handleCallbackQuery(t, u, u, "region", NoKey, [V0 EXCEPT !.region = r])

NextNeighbours ==
    \/ \E t \in TaskIds : PrivTokenReply(t)
    \/ \E t \in TaskIds : PrivRegion(t)
    \/ \E t \in TaskIds : Validate(t)
    \/ \E t \in TaskIds : ClrList(t)
    \/ \E t \in TaskIds : ClrDel(t)
    \/ \E t \in TaskIds : PutToken(t)
    \/ \E t \in TaskIds : RgSet(t)
    \/ \E t \in TaskIds : Return(t)
    \/ Tick

SpecNeighbours == Init /\ [][NextNeighbours]_vars

\* -------------------------------------------------- callback_data of buttons
\* the values come from the API answers and from Telegram, unvalidated
RegionSlugs == {"nyc1", "sfo3", "blr1"}

ImageIds == {"7", "53893572", "190297195", "2147483647"}

SizeSlugs == {"s-1vcpu-1gb", "so1_5-32vcpu-256gb-intel", "gpu-mi300x8-1536gb-contracted", "gpu-h100x8-640gb-contracted-reserved-12-months-eu"}

ChatIds == {"1", "987654321", "-1001234567890"}

Timestamps == {"1762329600000", "1762329600001"}

\* callback_data: `size_${region}_${imageId}_${size.slug}`
sizeToken(region, imageId, slug) == "size_" \o region \o "_" \o imageId \o "_" \o slug

\* `${prefix}_${chatId}_${Date.now()}`
recordId(prefix, chatId, now) == prefix \o "_" \o chatId \o "_" \o now

\* showSizes: one button per size
EmitSize(t) ==
    \E region \in RegionSlugs, imageId \in ImageIds, slug \in SizeSlugs :
        Begin(t, Finish([Idle EXCEPT !.h = "showSizes", !.token = sizeToken(region, imageId, slug)], "sizes"))

\* askDropletName: Use Default and Rename carry the session id
EmitName(t) ==
    \E chatId \in ChatIds, now \in Timestamps, button \in {"use_default_name_", "rename_droplet_"} :
        Begin(t, Finish([Idle EXCEPT !.h = "askDropletName", !.token = button \o recordId("session", chatId, now)], "askname"))

\* confirmDropletCreation: Create carries the creation id
EmitConfirm(t) ==
    \E chatId \in ChatIds, now \in Timestamps :
        Begin(t, Finish([Idle EXCEPT !.h = "confirmDropletCreation", !.token = "confirmcreate_" \o recordId("create", chatId, now)], "confirm"))

\* confirmRebuild: Yes, Rebuild carries the session id
EmitRebuild(t) ==
    \E chatId \in ChatIds, now \in Timestamps :
        Begin(t, Finish([Idle EXCEPT !.h = "confirmRebuild", !.token = "execute_rebuild_" \o recordId("rebuild", chatId, now)], "confirmrebuild"))

NextToken ==
    \/ \E t \in TaskIds : EmitSize(t)
    \/ \E t \in TaskIds : EmitName(t)
    \/ \E t \in TaskIds : EmitConfirm(t)
    \/ \E t \in TaskIds : EmitRebuild(t)
    \/ \E t \in TaskIds : Return(t)

InitToken ==
    /\ store = << >>
    /\ nextId = 1
    /\ task = [t \in {1, 2} |-> Idle]
    /\ apiCalls = << >>

SpecToken == InitToken /\ [][NextToken]_vars

\* ------------------------------------------- callback_data: encode and decode
\* what a button carries: the step it resumes and the step's parameters
NoCall == [step |-> "", region |-> "", type |-> "", page |-> 0, image |-> "", size |-> "", droplet |-> "", id |-> ""]

DropletIds == {"7", "412345678"}

PageNumbers == {0, 1, 12}

RecordIds == {recordId(p, c, n) : p \in {"session", "create", "rebuild"}, c \in {"1", "-1001234567890"}, n \in {"1762329600000"}}

DigitChars == <<"0", "1", "2", "3", "4", "5", "6", "7", "8", "9">>

\* `${page}`: the decimal digits of a non-negative integer
RECURSIVE toString(_)
toString(n) == IF n < 10 THEN DigitChars[n + 1] ELSE toString(n \div 10) \o DigitChars[(n % 10) + 1]

DigitValue(ch) == CHOOSE d \in 0..9 : DigitChars[d + 1] = ch

IsDigit(ch) == \E d \in 0..9 : DigitChars[d + 1] = ch

\* parseInt: the value of the leading digits (NaN, here -1, when there are none)
RECURSIVE parseIntFrom(_, _, _)
parseIntFrom(str, k, acc) ==
    IF k > Len(str) \/ ~IsDigit(SubSeq(str, k, k)) THEN acc
    ELSE parseIntFrom(str, k + 1, (IF acc < 0 THEN 0 ELSE acc * 10) + DigitValue(SubSeq(str, k, k)))

parseInt(str) == parseIntFrom(str, 1, -1)

startsWith(str, prefix) == Len(str) >= Len(prefix) /\ SubSeq(str, 1, Len(prefix)) = prefix

\* data.replace(prefix, '') on a string that starts with prefix
stripPrefix(str, prefix) == SubSeq(str, Len(prefix) + 1, Len(str))

RECURSIVE splitFrom(_, _, _)
splitFrom(str, k, cur) ==
    IF k > Len(str) THEN <<cur>>
    ELSE IF SubSeq(str, k, k) = "_" THEN <<cur>> \o splitFrom(str, k + 1, "")
    ELSE splitFrom(str, k + 1, cur \o SubSeq(str, k, k))

\* str.split('_')
split(str) == splitFrom(str, 1, "")

RECURSIVE join(_)
join(parts) == IF Len(parts) = 0 THEN "" ELSE IF Len(parts) = 1 THEN parts[1] ELSE parts[1] \o "_" \o join(Tail(parts))

\* parts[k], undefined read as ""
part(parts, k) == IF k <= Len(parts) THEN parts[k] ELSE ""

sliceFirstOnly(parts, k) == part(parts, k)

\* parts.slice(k - 1).join('_')
sliceJoin(parts, k) == join(SubSeq(parts, k, Len(parts)))

\* the callback_data each keyboard builds for a step
encode(c) ==
    CASE c.step = "region" -> "region_" \o c.region
      [] c.step = "imgtype" -> "imgtype_" \o c.region \o "_" \o c.type
      [] c.step = "imgpage" -> "imgpage_" \o c.region \o "_" \o c.type \o "_" \o toString(c.page)
      [] c.step = "imgsearch" -> "imgsearch_" \o c.region \o "_" \o c.type
      [] c.step = "backFromSearch" -> "back_from_search_" \o c.region
      [] c.step = "selectimg" -> "selectimg_" \o c.region \o "_" \o c.image
      [] c.step = "size" -> sizeToken(c.region, c.image, c.size)
      [] c.step = "useDefault" -> "use_default_name_" \o c.id
      [] c.step = "renamePress" -> "rename_droplet_" \o c.id
      [] c.step = "confirmcreate" -> "confirmcreate_" \o c.id
      [] c.step = "droplet" -> "droplet_" \o c.droplet
      [] c.step = "confirmDelete" -> "confirm_delete_" \o c.droplet
      [] c.step = "delete" -> "delete_" \o c.droplet
      [] c.step = "backToList" -> "back_to_list"
      [] c.step = "rebuild" -> "rebuild_" \o c.droplet
      [] c.step = "rebuildtype" -> "rebuildtype_" \o c.droplet \o "_" \o c.type
      [] c.step = "rebuildpage" -> "rebuildpage_" \o c.droplet \o "_" \o c.type \o "_" \o toString(c.page)
      [] c.step = "rebuildsearch" -> "rebuildsearch_" \o c.droplet \o "_" \o c.type
      [] c.step = "backFromRebuildSearch" -> "back_from_rebuild_search_" \o c.droplet
      [] c.step = "rebuildimg" -> "rebuildimg_" \o c.droplet \o "_" \o c.image
      [] c.step = "executeRebuild" -> "execute_rebuild_" \o c.id
      [] c.step = "backToRegions" -> "back_to_regions"

\* handleCallbackQuery: the first branch of the if / else-if chain that matches
dispatch(data) ==
    IF startsWith(data, "region_") THEN "region"
    ELSE IF startsWith(data, "imgtype_") THEN "imgtype"
    ELSE IF startsWith(data, "imgpage_") THEN "imgpage"
    ELSE IF startsWith(data, "imgsearch_") THEN "imgsearch"
    ELSE IF startsWith(data, "back_from_search_") THEN "backFromSearch"
    ELSE IF startsWith(data, "selectimg_") THEN "selectimg"
    ELSE IF startsWith(data, "size_") THEN "size"
    ELSE IF startsWith(data, "use_default_name_") THEN "useDefault"
    ELSE IF startsWith(data, "rename_droplet_") THEN "renamePress"
    ELSE IF startsWith(data, "confirmcreate_") THEN "confirmcreate"
    ELSE IF startsWith(data, "droplet_") THEN "droplet"
    ELSE IF startsWith(data, "confirm_delete_") THEN "confirmDelete"
    ELSE IF startsWith(data, "delete_") THEN "delete"
    ELSE IF data = "back_to_list" THEN "backToList"
    ELSE IF startsWith(data, "rebuild_") THEN "rebuild"
    ELSE IF startsWith(data, "rebuildtype_") THEN "rebuildtype"
    ELSE IF startsWith(data, "rebuildpage_") THEN "rebuildpage"
    ELSE IF startsWith(data, "rebuildsearch_") THEN "rebuildsearch"
    ELSE IF startsWith(data, "back_from_rebuild_search_") THEN "backFromRebuildSearch"
    ELSE IF startsWith(data, "rebuildimg_") THEN "rebuildimg"
    ELSE IF startsWith(data, "execute_rebuild_") THEN "executeRebuild"
    ELSE IF data = "cancel_create" THEN "cancel"
    ELSE IF data = "back_to_regions" THEN "backToRegions"
    ELSE "none"

\* the parameters the matching branch takes out of the token
decode(data) ==
    LET step == dispatch(data)
        c == [NoCall EXCEPT !.step = step]
        Parts(prefix) == split(stripPrefix(data, prefix))
    IN CASE step = "region" -> [c EXCEPT !.region = stripPrefix(data, "region_")]
         [] step = "imgtype" -> [c EXCEPT !.region = part(Parts("imgtype_"), 1), !.type = part(Parts("imgtype_"), 2)]
         [] step = "imgpage" -> [c EXCEPT !.region = part(Parts("imgpage_"), 1), !.type = part(Parts("imgpage_"), 2), !.page = parseInt(part(Parts("imgpage_"), 3))]
         [] step = "imgsearch" -> [c EXCEPT !.region = part(Parts("imgsearch_"), 1), !.type = part(Parts("imgsearch_"), 2)]
         [] step = "backFromSearch" -> [c EXCEPT !.region = part(Parts("back_from_search_"), 1)]
         [] step = "selectimg" -> [c EXCEPT !.region = part(Parts("selectimg_"), 1), !.image = sliceJoin(Parts("selectimg_"), 2)]
         [] step = "size" -> [c EXCEPT !.region = part(Parts("size_"), 1), !.image = part(Parts("size_"), 2), !.size = sliceJoin(Parts("size_"), 3)]
         [] step = "useDefault" -> [c EXCEPT !.id = stripPrefix(data, "use_default_name_")]
         [] step = "renamePress" -> [c EXCEPT !.id = stripPrefix(data, "rename_droplet_")]
         [] step = "confirmcreate" -> [c EXCEPT !.id = stripPrefix(data, "confirmcreate_")]
         [] step = "droplet" -> [c EXCEPT !.droplet = stripPrefix(data, "droplet_")]
         [] step = "confirmDelete" -> [c EXCEPT !.droplet = stripPrefix(data, "confirm_delete_")]
         [] step = "delete" -> [c EXCEPT !.droplet = stripPrefix(data, "delete_")]
         [] step = "rebuild" -> [c EXCEPT !.droplet = stripPrefix(data, "rebuild_")]
         [] step = "rebuildtype" -> [c EXCEPT !.droplet = part(Parts("rebuildtype_"), 1), !.type = part(Parts("rebuildtype_"), 2)]
         [] step = "rebuildpage" -> [c EXCEPT !.droplet = part(Parts("rebuildpage_"), 1), !.type = part(Parts("rebuildpage_"), 2), !.page = parseInt(part(Parts("rebuildpage_"), 3))]
         [] step = "rebuildsearch" -> [c EXCEPT !.droplet = part(Parts("rebuildsearch_"), 1), !.type = part(Parts("rebuildsearch_"), 2)]
         [] step = "backFromRebuildSearch" -> [c EXCEPT !.droplet = stripPrefix(data, "back_from_rebuild_search_")]
         [] step = "rebuildimg" -> [c EXCEPT !.droplet = part(Parts("rebuildimg_"), 1), !.image = sliceJoin(Parts("rebuildimg_"), 2)]
         [] step = "executeRebuild" -> [c EXCEPT !.id = stripPrefix(data, "execute_rebuild_")]
         [] OTHER -> c

\* the buttons of the create wizard ...
CreateCalls ==
    {[NoCall EXCEPT !.step = "region", !.region = r] : r \in RegionSlugs}
    \cup {[NoCall EXCEPT !.step = st, !.region = r, !.type = ty] : st \in {"imgtype", "imgsearch"}, r \in RegionSlugs, ty \in ImageTypes}
    \cup {[NoCall EXCEPT !.step = "imgpage", !.region = r, !.type = ty, !.page = p] : r \in RegionSlugs, ty \in ImageTypes, p \in PageNumbers}
    \cup {[NoCall EXCEPT !.step = "backFromSearch", !.region = r] : r \in RegionSlugs}
    \cup {[NoCall EXCEPT !.step = "selectimg", !.region = r, !.image = im] : r \in RegionSlugs, im \in ImageIds}
    \cup {[NoCall EXCEPT !.step = "size", !.region = r, !.image = im, !.size = sz] : r \in RegionSlugs, im \in ImageIds, sz \in SizeSlugs}
    \cup {[NoCall EXCEPT !.step = st, !.id = k] : st \in {"useDefault", "renamePress", "confirmcreate"}, k \in RecordIds}
    \cup {[NoCall EXCEPT !.step = "backToRegions"]}

\* ... and of droplet management and rebuild
ManageCalls ==
    {[NoCall EXCEPT !.step = st, !.droplet = d] : st \in {"droplet", "confirmDelete", "delete", "rebuild", "backFromRebuildSearch"}, d \in DropletIds}
    \cup {[NoCall EXCEPT !.step = st, !.droplet = d, !.type = ty] : st \in {"rebuildtype", "rebuildsearch"}, d \in DropletIds, ty \in ImageTypes}
    \cup {[NoCall EXCEPT !.step = "rebuildpage", !.droplet = d, !.type = ty, !.page = p] : d \in DropletIds, ty \in ImageTypes, p \in PageNumbers}
    \cup {[NoCall EXCEPT !.step = "rebuildimg", !.droplet = d, !.image = im] : d \in DropletIds, im \in ImageIds}
    \cup {[NoCall EXCEPT !.step = "executeRebuild", !.id = k] : k \in RecordIds}
    \cup {[NoCall EXCEPT !.step = "backToList"]}

\* a keyboard is sent: the button and what it stands for
ShowButton(t) ==
    \E c \in CreateCalls \cup ManageCalls :
        Begin(t, [Idle EXCEPT !.pc = "shown", !.data = c, !.token = encode(c)])

\* the button is pressed: handleCallbackQuery takes the token apart
PressButton(t) ==
    /\ At(t, "shown")
    /\ Step(t, Finish([Me(t) EXCEPT !.h = dispatch(Me(t).token), !.arg = decode(Me(t).token)], "handled"))
    /\ UNCHANGED <<store, nextId, apiCalls>>

NextCodec ==
    \/ \E t \in TaskIds : ShowButton(t)
    \/ \E t \in TaskIds : PressButton(t)
    \/ \E t \in TaskIds : Return(t)

SpecCodec == Init /\ [][NextCodec]_vars

\* ------------------------------------------------ sizes offered for an image
\* GET /sizes, in the order of the answer: size i has these fields
SizeCatalog == <<1, 2, 3, 4>>

SizeSlug(i) == CASE i = 1 -> "s-1vcpu-1gb" [] i = 2 -> "s-2vcpu-4gb" [] i = 3 -> "c-2" [] OTHER -> "s-1vcpu-512mb-10gb"

SizeAvailable(i) == i # 3

SizeDisk(i) == CASE i = 1 -> 25 [] i = 2 -> 80 [] i = 3 -> 25 [] OTHER -> 10

SizePrice(i) == CASE i = 1 -> 6 [] i = 2 -> 24 [] i = 3 -> 42 [] OTHER -> 4

\* image.min_disk_size of GET /images/{id}
MinDisks == {0, 25, 60, 160}

\* the filter of showSizes
sizeFitsIgnoringDisk(i, regionSizes, minDisk) == SizeAvailable(i) /\ SizeSlug(i) \in regionSizes

sizeFits(i, regionSizes, minDisk) == SizeAvailable(i) /\ SizeSlug(i) \in regionSizes /\ ~(SizeDisk(i) < minDisk)

\* .sort((a, b) => a.price_monthly - b.price_monthly)
ByPrice(a, b) == SizePrice(a) < SizePrice(b)

\* .filter(...).sort(...), and the first 15 of it on the keyboard
availableSizes(regionSizes, minDisk) ==
    LET Keep(i) == sizeFits(i, regionSizes, minDisk)
    IN SortSeq(SelectSeq(SizeCatalog, Keep), ByPrice)

SizeButtons(sizes) == SubSeq(sizes, 1, Min(15, Len(sizes)))

\* selectimg_ for an image of the region; what the API will answer about the
\* image and the region is fixed with the delivery
PressImageOfRegion(t) ==
    \E r \in Regions, im \in Images, found \in BOOLEAN, regionSizes \in SUBSET {SizeSlug(i) : i \in 1..Len(SizeCatalog)}, minDisk \in MinDisks :
        handleCallbackQuery(t, 1, 1, "sizesOf", NoKey, [V0 EXCEPT !.region = r, !.image = im, !.step = IF found THEN "found" ELSE "missing", !.items = regionSizes, !.disk = minDisk])

\* showSizes
showSizes(t) ==
    /\ At(t, "sh_sizes")
    /\ LET a == Me(t).arg
           sizes == availableSizes(a.items, a.disk)
       IN CASE a.step = "missing" ->
                 /\ Step(t, Finish([Me(t) EXCEPT !.called = TRUE], "noimage"))
                 /\ UNCHANGED store
            [] a.step = "found" /\ a.items = {} ->
                 /\ Step(t, Finish([Me(t) EXCEPT !.called = TRUE], "nosizes"))
                 /\ UNCHANGED store
            [] a.step = "found" /\ a.items # {} /\ sizes = << >> ->
                 /\ Step(t, Finish([Me(t) EXCEPT !.called = TRUE], "nocompatible"))
                 /\ UNCHANGED store
            [] OTHER ->
                 /\ store' = Put(store, StateKey(Me(t).chat), [V0 EXCEPT !.region = a.region, !.image = a.image], STATE_TTL)
                 /\ Step(t, Finish([Me(t) EXCEPT !.called = TRUE, !.wrote = TRUE, !.img.offered = SizeButtons(sizes)], "sizes"))
    /\ UNCHANGED <<nextId, apiCalls>>

NextSizes ==
    \/ \E t \in TaskIds : PressImageOfRegion(t)
    \/ \E t \in TaskIds : showSizes(t)
    \/ \E t \in TaskIds : Return(t)
    \/ Tick

SpecSizes == Init /\ [][NextSizes]_vars

\* ------------------------------------- two deliveries on one wizard state
\* the wizard of chat 1 has a region and an image; two deliveries are handled
\* at once, one of them a size_ press (read, change, write back)
InitOverlap ==
    /\ store = Put(StartCredential, StateKey(1), [V0 EXCEPT !.region = "nyc1", !.image = "img1"], STATE_TTL)
    /\ nextId = 1
    /\ task = [t \in {1, 2} |-> Idle]
    /\ apiCalls = << >>

OperatorPressSize(t) == \E r \in Regions, i \in Images, sz \in Sizes : handleCallbackQuery(t, 1, 1, "size", NoKey, [V0 EXCEPT !.region = r, !.image = i, !.size = sz])

OperatorPressImgSearch(t) == \E rg \in Regions : handleCallbackQuery(t, 1, 1, "imgsearch", NoKey, [V0 EXCEPT !.region = rg, !.type = "os"])

NextOverlap ==
    \/ \E t \in TaskIds : OperatorPressSize(t)
    \/ \E t \in TaskIds : OperatorPressImgSearch(t)
    \/ \E t \in TaskIds : SzGet(t)
    \/ \E t \in TaskIds : SzSet(t)
    \/ \E t \in TaskIds : askDropletName(t)
    \/ \E t \in TaskIds : SmSet(t)
    \/ \E t \in TaskIds : Return(t)
    \/ Tick

SpecOverlap == InitOverlap /\ [][NextOverlap]_vars

\* ------------------------------------------------------------ /create
\* /create: clearState, then showRegions
CrClear(t) ==
    /\ At(t, "cr_clear")
    /\ store' = Delete(store, StateKey(Me(t).chat))
    /\ Step(t, [Me(t) EXCEPT !.pc = "rg_show", !.deleted = TRUE])
    /\ UNCHANGED <<nextId, apiCalls>>

\* showRegions: the credential, GET /regions, the regions keyboard
showRegions(t) ==
    /\ At(t, "rg_show")
    /\ LET r == [Me(t) EXCEPT !.apiToken = getUserApiToken(Me(t).chat)]
       IN IF r.apiToken = ""
          THEN Step(t, Finish(r, "notoken"))
          ELSE \E outcome \in {"ok", "throw"} :
                 Step(t, Finish([r EXCEPT !.called = TRUE], IF outcome = "ok" THEN "regions" ELSE "crash"))
    /\ UNCHANGED <<store, nextId, apiCalls>>

MsgCreate(t) == \E u \in Users, x \in {"/create", "zzz"} : handleMessage(t, u, 1, "text", NoKey, [V0 EXCEPT !.query = x])

OperatorPressRebuildSearch(t) == \E d \in Droplets : handleCallbackQuery(t, 1, 1, "rebuildsearch", NoKey, [V0 EXCEPT !.droplet = d, !.type = "os"])

\* the operator has a credential and the image catalog is cached
InitCommands ==
    /\ store = Put(StartCredential, ImagesCacheKey, [V0 EXCEPT !.items = PageOf(1, 24)], CACHE_TTL)
    /\ nextId = 1
    /\ task = [t \in {1, 2} |-> Idle]
    /\ apiCalls = << >>

NextCommands ==
    \/ \E t \in TaskIds : MsgCreate(t)
    \/ \E t \in TaskIds : OperatorPressImgSearch(t)
    \/ \E t \in TaskIds : OperatorPressRebuildSearch(t)
    \/ \E t \in TaskIds : SmSet(t)
    \/ \E t \in TaskIds : TxState(t)
    \/ \E t \in TaskIds : IsToken(t)
    \/ \E t \in TaskIds : RlToken(t)
    \/ \E t \in TaskIds : RsDroplet(t)
    \/ \E t \in TaskIds : GaGet(t)
    \/ \E t \in TaskIds : SrClear(t)
    \/ \E t \in TaskIds : CrClear(t)
    \/ \E t \in TaskIds : showRegions(t)
    \/ \E t \in TaskIds : Return(t)

SpecCommands == InitCommands /\ [][NextCommands]_vars

\* ------------------------------------------ Next on a search-result listing
\* GET /images answered with this many images, now in the cache
CatalogSize == 500

MsgSearch(t) == \E x \in {"DOC", "ngi", "zzz"} : handleMessage(t, 1, 1, "text", NoKey, [V0 EXCEPT !.query = x])

\* the Next button of a result listing still on the screen: imgpage_${state.region}_${state.type}_1;
\* arg.query remembers the search the listing came from
PressNextOfResults(t) ==
    \E o \in TaskIds \ {t} :
        /\ task[o].pc = "done" /\ task[o].h = "text" /\ task[o].reply = "results"
        /\ Ceil(Len(task[o].img.results), ITEMS_PER_PAGE) > 1
        /\ handleCallbackQuery(t, task[o].from, task[o].chat, "imgpage", NoKey, [V0 EXCEPT !.region = task[o].data.region, !.type = task[o].data.type, !.page = 1, !.query = task[o].arg.query])

InitSearchPages ==
    /\ store = Put(StartCredential, ImagesCacheKey, [V0 EXCEPT !.items = [i \in 1..CatalogSize |-> i]], CACHE_TTL)
    /\ nextId = 1
    /\ task = [t \in {1, 2} |-> Idle]
    /\ apiCalls = << >>

NextSearchPages ==
    \/ \E t \in TaskIds : OperatorPressImgSearch(t)
    \/ \E t \in TaskIds : SmSet(t)
    \/ \E t \in TaskIds : MsgSearch(t)
    \/ \E t \in TaskIds : TxState(t)
    \/ \E t \in TaskIds : IsToken(t)
    \/ \E t \in TaskIds : IlToken(t)
    \/ \E t \in TaskIds : GaGet(t)
    \/ \E t \in TaskIds : SrClear(t)
    \/ \E t \in TaskIds : PressNextOfResults(t)
    \/ \E t \in TaskIds : Return(t)

SpecSearchPages == InitSearchPages /\ [][NextSearchPages]_vars

\* ------------------------------------------ cancel with a Confirm prompt out
\* a create wizard of chat 1 has reached the Confirm prompt: its state and
\* its pending creation are stored; deliveries are handled one at a time and
\* nothing but cancel_create removes the wizard state
InitCancel ==
    /\ StartCreate
    /\ task = [t \in {1} |-> Idle]

NextCancel ==
    \/ \E t \in TaskIds : PressCancel(t)
    \/ \E t \in TaskIds : CnClear(t)
    \/ \E t \in TaskIds : PressConfirmCreate(t)
    \/ \E t \in TaskIds : ExToken(t)
    \/ \E t \in TaskIds : ExGet(t)
    \/ \E t \in TaskIds : ExCall(t)
    \/ \E t \in TaskIds : ExDel(t)
    \/ \E t \in TaskIds : Return(t)

SpecCancel == InitCancel /\ [][NextCancel]_vars

\* --------------------------------------------- two proposals in one chat
\* rebuildimg_${dropletId}_${imageId} pressed for one of two droplets
ProposeRebuild(t) == \E d \in {7, 8}, im \in Images : handleCallbackQuery(t, 1, 1, "rebuildimg", NoKey, [V0 EXCEPT !.droplet = d, !.image = im])

InitProposals ==
    /\ store = StartCredential
    /\ nextId = 1
    /\ task = [t \in {1, 2} |-> Idle]
    /\ apiCalls = << >>

NextProposals ==
    \/ \E t \in TaskIds : ProposeRebuild(t)
    \/ \E t \in TaskIds : confirmRebuild(t)
    \/ \E t \in TaskIds : PressExecuteRebuild(t)
    \/ \E t \in TaskIds : ExToken(t)
    \/ \E t \in TaskIds : ExGet(t)
    \/ \E t \in TaskIds : ExCall(t)
    \/ \E t \in TaskIds : ExDel(t)
    \/ \E t \in TaskIds : Return(t)
    \/ Tick

SpecProposals == InitProposals /\ [][NextProposals]_vars

\* ------------------------------------------ two wizard runs in one chat
\* the images the two runs of the wizard selected
RunImages == {"img1", "img2"}

\* selectimg_${region}_${imageId} pressed in one of the runs
RunSelectImg(t) == \E r \in Regions, i \in RunImages : handleCallbackQuery(t, 1, 1, "selectimg", NoKey, [V0 EXCEPT !.region = r, !.image = i])

\* size_${region}_${imageId}_${size.slug} pressed on the size list of one of the runs
RunPressSize(t) == \E r \in Regions, i \in RunImages, sz \in Sizes : handleCallbackQuery(t, 1, 1, "size", NoKey, [V0 EXCEPT !.region = r, !.image = i, !.size = sz])

InitRuns ==
    /\ store = StartCredential
    /\ nextId = 1
    /\ task = [t \in {1, 2} |-> Idle]
    /\ apiCalls = << >>

NextRuns ==
    \/ \E t \in TaskIds : RunSelectImg(t)
    \/ \E t \in TaskIds : SsApi(t)
    \/ \E t \in TaskIds : SsSet(t)
    \/ \E t \in TaskIds : RunPressSize(t)
    \/ \E t \in TaskIds : SzGet(t)
    \/ \E t \in TaskIds : SzSet(t)
    \/ \E t \in TaskIds : askDropletName(t)
    \/ \E t \in TaskIds : Return(t)
    \/ Tick

SpecRuns == InitRuns /\ [][NextRuns]_vars

\* ================================================================== claims
ExecHandlers == {"confirmcreate", "executeRebuild"}

\* the deliveries that ran an execute step up to and including the remote call
Executed == {t \in TaskIds : task[t].h \in ExecHandlers /\ task[t].called /\ task[t].from \in ALLOWED_USER_IDS}

\* C2: in the execute step of create and of rebuild the pending record is
\* deleted before the remote call is issued: in no reachable state has the
\* call been issued while the record is still readable.
C2_DeletedBeforeCall == \A t \in Executed : ~Live(task[t].key)

\* C3: once the execute step has run to its end the pending record is absent,
\* whether the call succeeded or failed, so that the press after a failed call
\* reports 'session expired' and no call is issued a second time.
C3_AbsentAfterExecute == \A t \in Executed : task[t].pc = "done" => (~Live(task[t].key) /\ Calls(Logged(task[t], ExecOp(task[t].h))) <= 1)

\* C5: a press of an indirection token (use-default-name, rename,
\* confirm-create, execute-rebuild) that finds its record absent ends in
\* 'session expired', with no store write or delete and no remote call.
C5_AbsentReportsExpired == [][\A t \in TaskIds : (task[t].pc \in {"ud_get", "rp_get", "ex_get"} /\ ~Live(task[t].key) /\ task'[t] # task[t]) => (task'[t].pc = "done" /\ task'[t].reply = "expired" /\ ~task'[t].wrote /\ ~task'[t].deleted /\ ~task'[t].called /\ store' = store /\ apiCalls' = apiCalls)]_vars

\* a consumed create token and a never-stored session token were pressed
C5_Witness == \E t \in TaskIds : task[t].pc = "done" /\ task[t].reply = "expired" /\ task[t].h \in {"useDefault", "renamePress", "confirmcreate", "executeRebuild"} /\ store # << >>

\* C6: a delete confirmation is single-use: however often 'Yes, Delete' of one
\* droplet is pressed, at most one remote delete is issued.
C6_DeleteSingleUse == \A t \in TaskIds : (task[t].h = "delete" /\ task[t].called /\ task[t].from \in ALLOWED_USER_IDS) => Calls(Logged(task[t], "delete")) <= 1

\* C7: an event from a user outside ALLOWED_USER_IDS writes nothing to the
\* store, deletes nothing from it, calls no API and ends in 'Access denied'.
C7_OnlyWhitelisted == \A t \in TaskIds : (Active(t) /\ task[t].from \notin ALLOWED_USER_IDS) => (~task[t].wrote /\ ~task[t].deleted /\ ~task[t].called /\ (task[t].pc = "done" => task[t].reply = "denied"))

\* C4: in a sequential create run with the generated default name, one press
\* of the confirmation token issues exactly one creation call carrying the
\* region, image, size and name of the pending record, after which the
\* record is absent, so that a second press issues no call.
C4_SequentialCreate == \A t \in TaskIds : (task[t].h = "confirmcreate" /\ task[t].pc = "done" /\ task[t].called /\ task[t].from \in ALLOWED_USER_IDS /\ task[t].data.name.base = "droplet") => (Request(task[t]).name = generateDropletName(task[t].data.image, task[t].data.size, task[t].data.region, task[t].data.name.ts) /\ Request(task[t]).ssh # {} /\ ~Live(task[t].key) /\ Calls(Logged(task[t], "create")) = 1)

\* the record kinds clearUserSessions is meant to remove
OperatorRecords(c) == {k \in DOMAIN store : k.c = c /\ k.p \in {"state", "session", "create", "rebuild"}}

C10_RejectedChangesNothing == [][\A t \in TaskIds : (task[t].pc = "validate" /\ task'[t] # task[t] /\ task'[t].resp # "ok") => (store' = store /\ task'[t].pc = "done" /\ task'[t].reply = "invalid" /\ ~task'[t].wrote /\ ~task'[t].deleted)]_vars

\* a rejected submission while a credential and a pending creation are stored
C10_Witness == \E t \in TaskIds : task[t].pc = "done" /\ task[t].reply = "invalid" /\ task[t].resp = "reject" /\ getUserApiToken(task[t].chat) = "c1" /\ task[t].arg.cred = "c2" /\ \E k \in DOMAIN store : k.p = "create"

\* two deliveries of one confirm press
SamePress(t, o) == t # o /\ task[t].h \in ExecHandlers /\ task[o].h = task[t].h /\ task[o].key = task[t].key /\ {task[t].from, task[o].from} \subseteq ALLOWED_USER_IDS

\* C1: of the deliveries of one confirm press of a create or rebuild, however
\* they overlap, at most one obtains the pending parameters and issues the
\* remote call; every other one reports 'session expired'.
C1_ConfirmAtMostOnce == \A t, o \in TaskIds : (SamePress(t, o) /\ task[t].called) => (~task[o].called /\ (task[o].pc = "done" => task[o].reply = "expired"))

\* C9: a pending mutation proposed under one credential is not executed once
\* the operator's credential has been replaced: when the remote call goes
\* out, the credential it carries is the stored one, and so is the
\* credential with which the SSH key ids of the record were fetched.
C9_NoStaleExecution == [][\A t \in TaskIds : (task[t].pc = "ex_call" /\ task'[t].called /\ task[t].from \in ALLOWED_USER_IDS) => (task[t].apiToken = getUserApiToken(task[t].chat) /\ (task[t].data.ssh # {} => task[t].data.ssh = SshKeysOf(getUserApiToken(task[t].chat))))]_vars

\* C11: an entered name that has a character other than a letter, a digit,
\* '.' or '-' is rejected: the reply does not end in the Confirm message and
\* no pending creation is stored for it.
C11_NameValidated == \A t \in TaskIds : (task[t].h = "renameReply" /\ task[t].from \in ALLOWED_USER_IDS /\ task[t].arg.name.base \in EnteredNames /\ ~ValidName(task[t].arg.name.base)) => (~task[t].wrote /\ task[t].reply # "confirm" /\ \A k \in DOMAIN store : k.p = "create" => store[k].val.name # task[t].arg.name)

\* the provider's whole listing of n public images, in its order
Listing(n) == [i \in 1..n |-> i]

\* C12: the image cache entry is absent or holds the concatenation of all
\* pages of one fetch, and a fetch in which a page request failed (thrown
\* fetch, or an error body without an image list) writes no cache entry
C12_CacheWholeOrAbsent ==
    /\ Live(ImagesCacheKey) => \E n \in Totals : Get(ImagesCacheKey).items = Listing(n)
    /\ \A t \in TaskIds : task[t].img.failed => ~task[t].img.put

\* C13: when a page request failed during a cache-miss fetch, the listing
\* returned to the caller is the empty sequence, never the pages that did
\* succeed
C13_FailedFetchReturnsEmpty == \A t \in TaskIds : (task[t].img.returned /\ task[t].img.failed /\ ~task[t].img.hit) => task[t].img.allImages = <<>>

\* C14: a listing of a cacheable class made while the written cache entry
\* is live returns the cached item sequence and issues no remote listing
\* request; the entry lives at most CACHE_TTL, and a listing made without
\* it requests page 1 afresh and, unless a fetch throws, rewrites the cache
C14_CacheHitThenRefetch ==
    [][/\ (ImagesCacheKey \in DOMAIN store') => store'[ImagesCacheKey].exp \in 1..CacheTicks
       /\ \A t \in TaskIds : (~task[t].img.returned /\ task'[t].img.returned /\ task'[t].img.type # "snapshot") =>
             IF task'[t].img.hit
             THEN /\ task'[t].img.req = <<>>
                  /\ ~task'[t].img.put
                  /\ Live(ImagesCacheKey) /\ task'[t].img.allImages = Get(ImagesCacheKey).items
                  /\ store' = store
             ELSE /\ task'[t].img.req # <<>> /\ task'[t].img.req[1] = 1
                  /\ task'[t].img.put \/ task'[t].img.allImages = <<>>
                  /\ task'[t].img.put => (ImagesCacheKey \in DOMAIN store' /\ store'[ImagesCacheKey] = [val |-> [V0 EXCEPT !.items = task'[t].img.allImages], exp |-> CacheTicks])]_vars

\* a listing answered from a cache that an earlier fetch filled
C14_Witness == \E t \in TaskIds : task[t].h = "imgtype" /\ task[t].img.returned /\ task[t].img.hit /\ task[t].img.offered # <<>> /\ store[ImagesCacheKey].exp = 1

\* C15: a cache-miss fetch of a listing of n items in which no page request
\* failed has requested the pages 1..ceil(n/IMAGES_PER_PAGE) once each, in
\* order (page 1 alone when n = 0), and returns the n items once each in
\* the provider's order
C15_PaginationComplete ==
    \A t \in TaskIds : (task[t].img.returned /\ task[t].img.type # "snapshot" /\ ~task[t].img.hit /\ ~task[t].img.failed) =>
        /\ task[t].img.req = [p \in 1..(IF task[t].img.n = 0 THEN 1 ELSE Ceil(task[t].img.n, IMAGES_PER_PAGE)) |-> p]
        /\ task[t].img.allImages = Listing(task[t].img.n)

\* a fetch that needed more than two pages, the last one not full
C15_Witness == \E t \in TaskIds : task[t].img.returned /\ ~task[t].img.hit /\ ~task[t].img.failed /\ task[t].img.put /\ Len(task[t].img.req) > 2 /\ task[t].img.n % IMAGES_PER_PAGE = 1

\* C16: a listing of the snapshot class never reads or writes the cache
\* entry and issues the remote listing request on every call
C16_SnapshotsUncached ==
    \A t \in TaskIds : task[t].img.type = "snapshot" =>
        /\ task[t].pc \notin {"ga_get", "ga_first", "ga_page", "ga_put"}
        /\ ~task[t].img.hit /\ ~task[t].img.put
        /\ task[t].img.returned => task[t].img.req = <<0>>

\* snapshots listed while a cache entry is stored
C16_Witness == \E t \in TaskIds : task[t].img.type = "snapshot" /\ task[t].img.returned /\ task[t].img.offered # <<>> /\ Live(ImagesCacheKey) /\ Get(ImagesCacheKey).items # <<>>

\* C17: no step of a /clearcache command changes a stored credential, and
\* when the command has answered the image cache entry is gone
C17_ClearCacheKeepsCredentials ==
    [][\A t \in TaskIds : (task[t].h = "text" /\ task[t].arg.query = "/clearcache" /\ task[t].pc \in {"cc_state", "cc_list", "cc_del", "clr_list", "clr_del"}) =>
          /\ \A k \in DOMAIN store : k.p = TokenKey(0).p => (k \in DOMAIN store' /\ store'[k] = store[k])
          /\ task'[t].reply = "cleared" => ImagesCacheKey \notin DOMAIN store']_vars

\* a /clearcache that deleted the cache entry and answered
C17_Witness == \E t \in TaskIds : task[t].h = "text" /\ task[t].reply = "cleared" /\ task[t].deletedCount = 1 /\ \A c \in Chats \cup Bystanders : Live(TokenKey(c))

\* the handlers of the rebuild wizard that offer images
RebuildOffer(r) == r.h \in {"rebuildtype", "rebuildpage"} \/ (r.h = "text" /\ r.data.step = "rebuild_searching_image")

\* C18: every image offered on a listing page or in a search result of the
\* rebuild wizard is available, needs no more disk than the droplet has and
\* has an empty region list or one that contains the droplet's region
C18_RebuildOffersCompatible ==
    \A t \in TaskIds : RebuildOffer(task[t]) =>
        \A i \in Elems(task[t].img.offered) :
            /\ ItemStatus(i) = "available"
            /\ ItemMinDisk(i) <= task[t].droplet.disk
            /\ ItemRegions(i) = {} \/ task[t].droplet.region \in ItemRegions(i)

\* a later page of a rebuild listing from which images were held back
C18_Witness ==
    \E t \in TaskIds :
        LET listed == ByType(task[t].img.allImages, task[t].img.type)
        IN /\ task[t].h = "rebuildpage"
           /\ task[t].img.offered # <<>>
           /\ (\E i \in Elems(listed) : ItemStatus(i) = "available" /\ ItemMinDisk(i) > task[t].droplet.disk)
           /\ (\E j \in Elems(listed) : ItemRegions(j) # {} /\ task[t].droplet.region \notin ItemRegions(j))

\* the free-text searches that got as far as their result
Searched(r) == r.h = "text" /\ r.from \in ALLOWED_USER_IDS /\ r.data.step \in SearchSteps /\ r.img.returned /\ r.reply # "error"

\* the listing a search looks through
SearchedListing(r) == IF r.data.step = "searching_image" THEN filterImagesByRegion(ByType(r.img.allImages, r.img.type), r.data.region) ELSE filterImagesForRebuild(ByType(r.img.allImages, r.img.type), r.droplet)

\* C19: a search returns exactly the images of the listing whose name,
\* identifier or description contains the term, compared case-insensitively
C19_SearchAllFields ==
    \A t \in TaskIds : Searched(task[t]) =>
        task[t].img.results = Filter(SearchedListing(task[t]), {i \in Elems(SearchedListing(task[t])) : MatchesAnyField(i, task[t].arg.query)})

StatedGroup(app) ==
    LET hit(c) == \E k \in 1..Len(Keywords(CategoryOrder[c])), f \in {app.name, app.slug, app.description} : strIncludes(lower(f), Keywords(CategoryOrder[c])[k])
    IN IF \E c \in 1..Len(CategoryOrder) : hit(c) THEN CategoryOrder[CHOOSE c \in 1..Len(CategoryOrder) : hit(c) /\ \A o \in 1..(c - 1) : ~hit(o)] ELSE "other"

\* C21: every app of a grouped list is in exactly one group: 'popular' when
\* its slug is on the allow-list, else the first keyword group that matches
\* its lowercased name, slug or description, else 'other'; equal apps are in
\* the same group
C21_CategorizeTotal ==
    \A t \in TaskIds : task[t].h = "category" =>
        \A i \in 1..Len(task[t].apps) :
            LET app == task[t].apps[i]
                in(c) == \E j \in 1..Len(task[t].grouped[c]) : task[t].grouped[c][j] = app
                want == IF app.slug \in PopularSlugs THEN "popular" ELSE StatedGroup(app)
            IN /\ want \in DOMAIN task[t].grouped
               /\ \A c \in DOMAIN task[t].grouped : in(c) <=> c = want

\* an app on the allow-list that a keyword group matches too, grouped
\* together with an app no rule matches
C21_Witness == \E t \in TaskIds : task[t].h = "category" /\ DOMAIN task[t].grouped = {"popular", "other"} /\ \E j \in 1..Len(task[t].grouped["popular"]) : StatedGroup(task[t].grouped["popular"][j]) = "devtools"

\* the screens of the create wizard from which it can still go on
CreateScreens == {"regions", "imgtypes", "list", "results", "sizes", "askname", "confirm"}

\* what the create wizard holds for a chat: selections, name prompt, pending creation
WizardRecords(c) == {k \in DOMAIN store : k.c = c /\ k.p \in {"state", "session", "create"}}

\* C22: every screen of the create wizard that is not its last carries a
\* Cancel button, and when a Cancel press of an operator has been answered
\* nothing of the wizard is left stored for the chat
C22_CancelDeletesSession ==
    \A t \in TaskIds :
        /\ (task[t].pc = "done" /\ task[t].reply \in CreateScreens) => "cancel_create" \in Keyboard(task[t].reply)
        /\ (task[t].h = "cancel" /\ task[t].from \in ALLOWED_USER_IDS /\ task[t].pc = "done") => WizardRecords(task[t].chat) = {}

\* the screen a handler has left on the display
Screen(r) ==
    IF RebuildOffer(r) /\ r.reply \in {"list", "results", "noresults"}
    THEN (CASE r.reply = "list" -> "rebuildlist" [] r.reply = "results" -> "rebuildresults" [] OTHER -> "rebuildnoresults")
    ELSE r.reply

\* the screens of both wizards past the first that show buttons
LaterScreens == {"imgtypes", "list", "results", "noresults", "sizes", "askname", "confirm", "rebuildlist", "rebuildresults", "rebuildnoresults", "confirmrebuild"}

BackTokens == {"back_to_regions", "back_from_search_", "back_from_rebuild_search_", "rebuild_", "droplet_"}

\* C23: every later screen of the create and rebuild wizards offers a Back
\* button, and an answered Back press has put the prompt of an earlier
\* state of the same wizard on the display
C23_BackLeadsToPriorPrompt ==
    \A t \in TaskIds : (task[t].pc = "done" /\ task[t].from \in ALLOWED_USER_IDS) =>
        /\ Screen(task[t]) \in LaterScreens => Keyboard(Screen(task[t])) \cap BackTokens # {}
        /\ task[t].h = "backFromSearch" => task[t].reply = "imgtypes"
        /\ task[t].h = "backFromRebuildSearch" => task[t].reply = "rebuildtypes"

\* C24: a button of an earlier screen pressed when the wizard state of the
\* chat is gone (here size_, read as absent) changes no wizard selection:
\* its handler stores nothing and shows no further prompt
C24_StaleTokenNoOp ==
    \A t \in TaskIds : (task[t].h = "size" /\ task[t].from \in ALLOWED_USER_IDS /\ task[t].pc # "sz_get" /\ task[t].data = V0) =>
        (~task[t].wrote /\ task[t].reply \in {"", "expired"})

\* C25: whatever the infrastructure API answers, the task of an event ends
\* by returning, never by an error that leaves the handler uncaught
C25_NoUncaughtError ==
    \A t \in TaskIds : task[t].from \in ALLOWED_USER_IDS => task[t].reply # "crash"

\* C26: a wizard or management step handled while the chat has no stored
\* credential issues no infrastructure API call and reports the missing
\* credential
NeedsCredential == {"selectimg", "useDefault", "renameReply", "confirmcreate", "executeRebuild", "delete"}

C26_NoCredentialNoCall ==
    \A t \in TaskIds : (task[t].h \in NeedsCredential /\ task[t].from \in ALLOWED_USER_IDS /\ task[t].pc = "done" /\ getUserApiToken(task[t].chat) = "" /\ task[t].apiToken = "") =>
        (~task[t].called /\ task[t].reply = "notoken")

\* C27: no pending creation is stored with an empty list of SSH keys, every
\* creation call carries a non-empty list, and an account without SSH keys
\* gets the "no SSH keys" message instead of the Confirm screen
C27_CreateCarriesSshKeys ==
    /\ \A k \in DOMAIN store : k.p = "create" => store[k].val.ssh # {}
    /\ \A t \in TaskIds :
         /\ (task[t].h = "confirmcreate" /\ task[t].called) => Request(task[t]).ssh # {}
         /\ task[t].reply = "confirm" => (task[t].data.ssh # {} /\ task[t].wrote)
         /\ task[t].reply = "nokeys" => (~task[t].wrote /\ task[t].data.ssh = {})

C27_Witness ==
    \E t \in TaskIds : task[t].h = "confirmcreate" /\ task[t].called /\ task[t].reply = "success" /\ Request(task[t]).ssh # {}

\* C28: when two whitelisted operators act in one chat, a call made for an
\* event of one of them carries the credential that operator stored, never
\* the one the other operator stored
C28_CredentialOfSender ==
    \A t \in TaskIds : (task[t].from \in Operators /\ task[t].chat = SharedChat /\ task[t].h \in {"selectimg", "delete"} /\ task[t].called) =>
        task[t].apiToken \in {"", CredOf(task[t].from)}

\* C29: a delete issued while the sessions of one operator are cleared
\* removes only a key of that operator, also when the operator's id is a
\* decimal prefix of another operator's id
C29_ClearTouchesOwnKeysOnly ==
    [][\A t \in TaskIds : (task[t].pc = "clr_del" /\ task'[t] # task[t]) =>
          \A k \in (DOMAIN store) \ (DOMAIN store') : k.c = task[t].chat]_vars

\* C30: the callback_data of every emitted button is at most 64 bytes long
C30_TokenFits ==
    \A t \in TaskIds : Len(task[t].token) <= 64

C32_SizesCompatible ==
    \A t \in TaskIds : (task[t].h = "sizesOf" /\ task[t].pc = "done") =>
        /\ \A k \in 1..Len(task[t].img.offered) :
             LET i == task[t].img.offered[k]
             IN SizeAvailable(i) /\ SizeSlug(i) \in task[t].arg.items /\ SizeDisk(i) >= task[t].arg.disk
        /\ (task[t].reply = "sizes") = (\E i \in 1..Len(SizeCatalog) : SizeAvailable(i) /\ SizeSlug(i) \in task[t].arg.items /\ SizeDisk(i) >= task[t].arg.disk /\ task[t].arg.step = "found")
        /\ task[t].reply # "sizes" => (~task[t].wrote /\ task[t].img.offered = << >>)

C32_Witness ==
    \E t \in TaskIds : task[t].h = "sizesOf" /\ task[t].pc = "done" /\ task[t].reply = "sizes" /\ task[t].arg.disk = 25 /\ task[t].img.offered = <<1, 2>> /\ "s-1vcpu-512mb-10gb" \in task[t].arg.items /\ "c-2" \in task[t].arg.items

\* C33: the write-back of a size_ press stores what the handler read plus its
\* own selection, whatever another delivery has stored since the read, and
\* goes on to the name prompt: an interleaved transition is overwritten
\* without being noticed
C33_LaterWriterWins ==
    [][\A t \in TaskIds : (task[t].pc = "sz_set" /\ task'[t].pc = "sz_put") =>
          store'[StateKey(task[t].chat)].val = [task[t].data EXCEPT !.size = task[t].arg.size, !.region = task[t].arg.region, !.image = task[t].arg.image]]_vars

\* the size_ press read the state before the search press stored its step,
\* wrote after it, and the stored state has no search step any more
C33_Witness ==
    \E t \in TaskIds, o \in TaskIds :
        /\ t # o
        /\ task[t].h = "size" /\ task[t].pc \in {"sz_put", "done"} /\ task[t].wrote
        /\ task[t].data.region = "nyc1" /\ task[t].data.step = ""
        /\ task[o].h = "imgsearch" /\ task[o].pc = "done" /\ task[o].wrote
        /\ task[t].from \in ALLOWED_USER_IDS /\ task[o].from \in ALLOWED_USER_IDS
        /\ Live(StateKey(1)) /\ Get(StateKey(1)).step = "" /\ Get(StateKey(1)).size = task[t].arg.size

\* C34: once the confirmation prompt of a create wizard is out (by Use
\* Default or by a rename reply), neither the wizard state of the chat nor
\* the name session of the run is in the store
C34_HandOffDeletesSession ==
    \A t \in TaskIds : (task[t].h \in {"useDefault", "renameReply"} /\ task[t].from \in ALLOWED_USER_IDS /\ task[t].pc = "done" /\ task[t].reply = "confirm") =>
        (~Live(StateKey(task[t].chat)) /\ ~Live(task[t].key))

\* C35: a search text of at least 3 characters handled in a search sub-state
\* leaves no search step in the wizard state, with or without results
C35_SearchStepCleared ==
    \A t \in TaskIds : (task[t].h = "text" /\ task[t].from \in ALLOWED_USER_IDS /\ task[t].pc = "done" /\ task[t].data.step \in SearchSteps /\ ~TooShort(task[t].arg.query)) =>
        Get(StateKey(task[t].chat)).step \notin SearchSteps

\* C36: /create from an operator is handled as the command whatever the chat
\* was doing: the wizard state is cleared and the regions are shown (or the
\* failure to get them is the outcome), never a search for the text "/create"
C36_CreateRestartsWizard ==
    \A t \in TaskIds : (task[t].h = "text" /\ task[t].arg.query = "/create" /\ task[t].from \in ALLOWED_USER_IDS /\ task[t].pc = "done") =>
        (task[t].deleted /\ task[t].reply \in {"regions", "notoken", "crash"} /\ task[t].img = NoFetch)

\* C37: every item on a page reached through the Next button of a
\* search-result listing matches the search term of that listing
C37_NextPageMatchesSearch ==
    \A t \in TaskIds : (task[t].h = "imgpage" /\ task[t].from \in ALLOWED_USER_IDS /\ task[t].pc = "done" /\ task[t].reply = "list") =>
        \A k \in 1..Len(task[t].img.offered) : Matches(task[t].img.offered[k], task[t].arg.query)

\* C38: after cancel_create has been handled for a chat (its wizard state is
\* gone), pressing the Create button of the Confirm prompt issued before
\* issues no creation call
C38_CancelRevokesConfirm ==
    \A t \in TaskIds : (task[t].h = "confirmcreate" /\ task[t].from \in ALLOWED_USER_IDS /\ ~Live(StateKey(task[t].chat))) => ~task[t].called

\* C39: while the confirmation message of a proposal is being sent, the
\* record under the key on its button holds the parameters of that proposal:
\* no other proposal of the chat was stored under the same key
C39_ProposalKeysDistinct ==
    \A t \in TaskIds : (task[t].h = "rebuildimg" /\ task[t].pc = "done" /\ task[t].reply = "confirmrebuild" /\ Live(Key("rebuild", task[t].chat, task[t].minted))) =>
        (Get(Key("rebuild", task[t].chat, task[t].minted)).droplet = task[t].arg.droplet /\ Get(Key("rebuild", task[t].chat, task[t].minted)).image = task[t].arg.image)

\* C40: while the name prompt of a size_ press is being sent, the name
\* session on its buttons holds the image of the pressed size button
C40_ImageOfSameRun ==
    \A t \in TaskIds : (task[t].h = "size" /\ task[t].pc = "done" /\ task[t].reply = "askname" /\ Live(Key("session", task[t].chat, task[t].minted))) =>
        Get(Key("session", task[t].chat, task[t].minted)).image = task[t].arg.image

\* the part of C40 that holds: the session askDropletName writes takes its
\* image from the pressed button, whatever state_<chat> holds at that time
C40_SessionTakesButtonImage ==
    [][\A t \in TaskIds : (task[t].pc = "sz_put" /\ task'[t].pc = "done") =>
          store'[Key("session", task[t].chat, task'[t].minted)].val.image = task[t].arg.image]_vars

\* a size_ press of the run that selected img1 reaches the name prompt while
\* state_<chat> is gone or holds the image of the other run
C40_OtherRunBetween ==
    \E t \in TaskIds : /\ task[t].h = "size" /\ task[t].pc = "done" /\ task[t].reply = "askname" /\ task[t].arg.image = "img1"
                       /\ Live(Key("session", task[t].chat, task[t].minted))
                       /\ Get(Key("session", task[t].chat, task[t].minted)).image = "img1"
                       /\ Live(StateKey(task[t].chat)) /\ Get(StateKey(task[t].chat)).image = "img2"

====
